---- MODULE Spec2Model ----
(***************************************************************************)
(* A model of EthicaLang (SafeScript): the indentation-sensitive lexer,   *)
(* the recursive-descent parser,                                           *)
(* the four static-analysis passes, the tree-walking interpreter and the  *)
(* compile/run pipeline of the command-line front end.                    *)
(*                                                                         *)
(* Specifications:                                                         *)
(*   LexSpec       Lexer.tokenize, one action per iteration of its loop    *)
(*   AnalysisSpec  the analysis passes applied to a family of trees        *)
(*   RunSpec       Interpreter.execute, one action per top-level statement *)
(*   Spec          compile_program followed by main's run step             *)
(*   ReturnSpec    the Cleverness pass applied to functions that return    *)
(*                 nested expressions                                      *)
(*   RepeatSpec    analyze called repeatedly on one analyzer instance      *)
(*   ParseSpec     Parser.parse, one action per method of the parser, each *)
(*                 step running a method up to its next call or return     *)
(***************************************************************************)
EXTENDS Integers, Sequences, FiniteSets, TLC

VARIABLES
    \* Lexer (src/ethicalang/lexer/lexer.py, Lexer.__init__)
    source,         \* self.source, a sequence of one-character strings
    pos,            \* self.pos (0-based offset into source)
    line,           \* self.line
    column,         \* self.column
    tokens,         \* self.tokens, the token types in order
    indent_stack,   \* self.indent_stack
    at_line_start,  \* local at_line_start of tokenize
    lex_status,     \* "running" | "done" | "fault" (SyntaxError) | "crash" (TypeError)
    \* Parser (src/ethicalang/parser/parser.py, Parser.__init__)
    parse_tokens,   \* self.tokens, the Token objects by type and value
    parse_pos,      \* self.pos (0-based index into self.tokens)
    frames,         \* the calls of Parser's methods that have not returned, outermost first
    returned,       \* what the call that ended last returned, or the error it raised
    parse_status,   \* "new" | "running" | "done" | the exception that left parse
    \* Analysis passes (src/ethicalang/analysis)
    tree,           \* the Program handed to analyze
    reports,        \* what Ethics/Cleverness analyze returned, per pass and strict_mode
    energy_report,  \* what EnergyAnalyzer(budget).analyze returned
    readability_report, \* what ReadabilityScorer(min_score).analyze returned
    analyzer,       \* an analyzer instance that is kept between calls of analyze
    replies,        \* what the successive calls of analyzer's analyze returned
    \* Interpreter (src/ethicalang/runtime/interpreter.py)
    program,        \* the Program handed to execute
    stmt_index,     \* position of visit_Program's loop in program.statements
    environments,   \* the Environment objects, in order of construction
    current_env,    \* self.current_env, an index into envs
    result,         \* local result of visit_Program, or the message of the error
    run_status,     \* "running" | "done" | the exception that left execute
    last_assigned,  \* history: value of the last assignment that completed
    output,         \* the argument lists handed to the print built-in
    \* Front end (src/ethicalang/cli/main.py)
    config,         \* the config dictionary main builds
    input,          \* the source, by what tokenizing and parsing it yield
    pc,             \* the stage compile_program / main is at
    ast,            \* local ast of compile_program, then of main
    errors,         \* local errors of compile_program, then of main
    passes_run,     \* history: the passes whose analyze was called, in order
    results,        \* energy_results, ethics_results, ... of compile_program
    started,        \* run_program has executed the tree
    exit_code,      \* what main returns, -1 until it does
    run_result      \* what Interpreter.execute returned or raised

lexVars == <<source, pos, line, column, tokens, indent_stack, at_line_start, lex_status>>

parseVars == <<parse_tokens, parse_pos, frames, returned, parse_status>>

anVars == <<tree, reports, energy_report, readability_report, analyzer, replies>>

runVars == <<program, stmt_index, environments, current_env, result, run_status, last_assigned,
             output>>

pipeVars == <<config, input, pc, ast, errors, passes_run, results, started, exit_code,
              run_result>>

nonLexVars == <<parseVars, anVars, runVars, pipeVars>>

vars == <<lexVars, parseVars, anVars, runVars, pipeVars>>

\* no analyzer has run
NoReport == [ran |-> FALSE]

ReportKeys == {"ethics", "cleverness"} \X BOOLEAN

\* EnergyAnalyzer's default budget
DefaultBudget == 1000
\* ReadabilityScorer's default min_score
DefaultMinScore == 70

\* the values of the variables of a component that a specification leaves alone
LexIdle ==
    /\ source = <<>>
    /\ pos = 0
    /\ line = 1
    /\ column = 1
    /\ tokens = <<>>
    /\ indent_stack = <<0>>
    /\ at_line_start = TRUE
    /\ lex_status = "done"

ParseIdle ==
    /\ parse_tokens = <<>>
    /\ parse_pos = 0
    /\ frames = <<>>
    /\ returned = [kind |-> "NoneType"]
    /\ parse_status = "done"

AnalysisIdle ==
    /\ tree = [kind |-> "Program", statements |-> <<>>]
    /\ reports = [key \in ReportKeys |-> NoReport]
    /\ energy_report = NoReport
    /\ readability_report = NoReport
    /\ analyzer = [pass |-> "none"]
    /\ replies = <<>>

PipelineIdle ==
    /\ config = [command |-> "check"]
    /\ input = [lexes |-> FALSE]
    /\ pc = "exit"
    /\ ast = [kind |-> "NoneType"]
    /\ errors = <<>>
    /\ passes_run = <<>>
    /\ results = <<>>
    /\ started = FALSE
    /\ exit_code = 0
    /\ run_result = [t |-> "none"]

RunIdle ==
    /\ program = [kind |-> "Program", statements |-> <<>>]
    /\ stmt_index = 1
    /\ environments = <<>>
    /\ current_env = 1
    /\ result = [t |-> "none"]
    /\ run_status = "done"
    /\ last_assigned = [t |-> "unassigned"]
    /\ output = <<>>

(***************************************************************************)
(* Bounds                                                                  *)
(***************************************************************************)
\* longest source over the indentation alphabet
MaxIndentSrcLen == 9
\* longest source over the full alphabet
MaxSrcLen == 4

(***************************************************************************)
(* Generic helpers                                                         *)
(***************************************************************************)
Last(s) == s[Len(s)]

Front(s) == SubSeq(s, 1, Len(s) - 1)

RECURSIVE Repeat(_, _)
Repeat(x, n) == IF n <= 0 THEN <<>> ELSE <<x>> \o Repeat(x, n - 1)

RECURSIVE CountOf(_, _)
CountOf(s, x) ==
    IF s = <<>> THEN 0
    ELSE (IF s[1] = x THEN 1 ELSE 0) + CountOf(Tail(s), x)

SeqsUpTo(S, n) == UNION {[1..k -> S] : k \in 0..n}

(***************************************************************************)
(* Lexer                                                                   *)
(***************************************************************************)
\* None of Python, returned by current_char at the end of the source
None == "<None>"

SpaceTab == {" ", "\t"}
CrLf == {"\r", "\n"}
Quotes == {"\"", "'"}
Digits == {"0", "1"}
Alphas == {"x", "_"}
\* characters of tokenize's else-if chain that always yield one token
SingleCharTokens == {"+", "/", "%", "(", ")", "{", "}", "[", "]", ",", ":", "@"}

\* the characters the enumerated sources are made of
IndentAlphabet == {" ", "\n", "x"}
FullAlphabet == {" ", "\t", "\n", "x", "#", "'", "\\", "!", "="}

Sources == SeqsUpTo(IndentAlphabet, MaxIndentSrcLen) \cup SeqsUpTo(FullAlphabet, MaxSrcLen)

\* Lexer.current_char at offset p
CharAt(p) == IF p >= Len(source) THEN None ELSE source[p + 1]

current_char == CharAt(pos)

\* Lexer.advance applied n times from offset p: the line and column reached
RECURSIVE AdvanceLC(_, _, _, _)
AdvanceLC(p, n, l, c) ==
    IF n = 0 \/ p >= Len(source) THEN [line |-> l, column |-> c]
    ELSE IF source[p + 1] = "\n" THEN AdvanceLC(p + 1, n - 1, l + 1, 1)
    ELSE AdvanceLC(p + 1, n - 1, l, c + 1)

\* the offset after the run of characters of class S that starts at offset p
RECURSIVE SkipWhile(_, _)
SkipWhile(p, S) ==
    IF p < Len(source) /\ source[p + 1] \in S THEN SkipWhile(p + 1, S) ELSE p

\* Lexer.skip_comment from offset p: to the end of the line, if at a '#'
RECURSIVE SkipToEol(_)
SkipToEol(p) ==
    IF p < Len(source) /\ source[p + 1] # "\n" THEN SkipToEol(p + 1) ELSE p

skip_comment(p) == IF CharAt(p) = "#" THEN SkipToEol(p) ELSE p

\* the indent_level tokenize computes from offset p: a space 1, a tab 4
RECURSIVE IndentLevel(_)
IndentLevel(p) ==
    IF p < Len(source) /\ source[p + 1] \in SpaceTab
    THEN (IF source[p + 1] = " " THEN 1 ELSE 4) + IndentLevel(p + 1)
    ELSE 0

\* the while loop of handle_indentation: pop while the top exceeds the level
RECURSIVE PopAbove(_, _)
RECURSIVE PopAbove_AlsoEqual(_, _)
PopAbove_AlsoEqual(stack, level) ==
    IF stack # <<>> /\ Last(stack) >= level THEN PopAbove_AlsoEqual(Front(stack), level)
    ELSE stack

PopAbove(stack, level) ==
    IF stack # <<>> /\ Last(stack) > level THEN PopAbove(Front(stack), level)
    ELSE stack

\* Lexer.handle_indentation: the new stack, the tokens to append, and whether
\* it raised "Inconsistent indentation"
handle_indentation_Realign(stack, indent_level) ==
    LET current_indent == Last(stack) IN
    IF indent_level > current_indent
    THEN [stack |-> Append(stack, indent_level), emit |-> <<"INDENT">>, error |-> FALSE]
    ELSE IF indent_level < current_indent
    THEN LET popped == PopAbove(stack, indent_level) IN
         [stack |-> IF Last(popped) # indent_level THEN Append(popped, indent_level) ELSE popped,
          emit  |-> Repeat("DEDENT", Len(stack) - Len(popped))
                    \o (IF Last(popped) # indent_level THEN <<"INDENT">> ELSE <<>>),
          error |-> FALSE]
    ELSE [stack |-> stack, emit |-> <<>>, error |-> FALSE]

handle_indentation(stack, indent_level) ==
    LET current_indent == Last(stack) IN
    IF indent_level > current_indent
    THEN [stack |-> Append(stack, indent_level), emit |-> <<"INDENT">>, error |-> FALSE]
    ELSE IF indent_level < current_indent
    THEN LET popped == PopAbove(stack, indent_level) IN
         [stack |-> popped,
          emit  |-> Repeat("DEDENT", Len(stack) - Len(popped)),
          error |-> (popped = <<>> \/ Last(popped) # indent_level)]
    ELSE [stack |-> stack, emit |-> <<>>, error |-> FALSE]

\* Lexer.read_string from the opening quote at offset p: the offset reached
\* and how the loop ended
RECURSIVE StringBody(_, _)
StringBody(p, q) ==
    IF CharAt(p) = None THEN [pos |-> p, end |-> "unterminated"]
    ELSE IF CharAt(p) = q THEN [pos |-> p + 1, end |-> "ok"]
    ELSE IF CharAt(p) = "\\"
    THEN (IF CharAt(p + 1) = None
          THEN [pos |-> p + 1, end |-> "typeerror"]   \* value += None
          ELSE StringBody(p + 2, q))
    ELSE StringBody(p + 1, q)

read_string(p) == StringBody(p + 1, CharAt(p))

LexMove(p) ==
    /\ pos' = p
    /\ line' = AdvanceLC(pos, p - pos, line, column).line
    /\ column' = AdvanceLC(pos, p - pos, line, column).column

LexInit ==
    /\ source \in Sources
    /\ pos = 0
    /\ line = 1
    /\ column = 1
    /\ tokens = <<>>
    /\ indent_stack = <<0>>
    /\ at_line_start = TRUE
    /\ lex_status = "running"
    /\ ParseIdle
    /\ AnalysisIdle
    /\ RunIdle
    /\ PipelineIdle

LexLooping == lex_status = "running" /\ pos < Len(source)

\* tokenize, lines 273-293: indentation at the start of a line
LexLineStart ==
    /\ LexLooping
    /\ UNCHANGED nonLexVars
    /\ at_line_start
    /\ LET p1 == SkipWhile(pos, SpaceTab)
           indent_level == IndentLevel(pos)
       IN
       IF CharAt(p1) = None
       THEN \* `None in ' \t'` raises TypeError
            /\ LexMove(p1)
            /\ lex_status' = "crash"
            /\ UNCHANGED <<source, tokens, indent_stack, at_line_start>>
       ELSE IF CharAt(p1) \in CrLf \/ CharAt(p1) = "#"
       THEN LET p2 == skip_comment(p1) IN
            IF CharAt(p2) = None
            THEN \* `None in '\r\n'` raises TypeError
                 /\ LexMove(p2)
                 /\ lex_status' = "crash"
                 /\ UNCHANGED <<source, tokens, indent_stack, at_line_start>>
            ELSE /\ LexMove(IF CharAt(p2) \in CrLf THEN p2 + 1 ELSE p2)
                 /\ UNCHANGED <<source, tokens, indent_stack, at_line_start, lex_status>>
       ELSE LET h == handle_indentation(indent_stack, indent_level) IN
            /\ LexMove(p1)
            /\ indent_stack' = h.stack
            /\ tokens' = tokens \o h.emit
            /\ lex_status' = IF h.error THEN "fault" ELSE "running"
            /\ at_line_start' = IF h.error THEN at_line_start ELSE FALSE
            /\ UNCHANGED source

\* tokenize, lines 296-298: whitespace inside a line
LexSkipWhitespace ==
    /\ LexLooping
    /\ UNCHANGED nonLexVars
    /\ ~at_line_start
    /\ current_char \in SpaceTab
    /\ LexMove(SkipWhile(pos, SpaceTab))
    /\ UNCHANGED <<source, tokens, indent_stack, at_line_start, lex_status>>

\* tokenize, lines 301-303: a comment after code
LexSkipComment ==
    /\ LexLooping
    /\ UNCHANGED nonLexVars
    /\ ~at_line_start
    /\ current_char = "#"
    /\ LexMove(skip_comment(pos))
    /\ UNCHANGED <<source, tokens, indent_stack, at_line_start, lex_status>>

\* tokenize, lines 306-312: the end of a line of code
LexNewline ==
    /\ LexLooping
    /\ UNCHANGED nonLexVars
    /\ ~at_line_start
    /\ current_char \in CrLf
    /\ LexMove(pos + 1)
    /\ tokens' = Append(tokens, "NEWLINE")
    /\ at_line_start' = TRUE
    /\ UNCHANGED <<source, indent_stack, lex_status>>

LexEmit(p, type) ==
    /\ LexMove(p)
    /\ tokens' = Append(tokens, type)
    /\ UNCHANGED <<source, indent_stack, at_line_start, lex_status>>

LexRaise(p, status) ==
    /\ LexMove(p)
    /\ lex_status' = status
    /\ UNCHANGED <<source, tokens, indent_stack, at_line_start>>

\* tokenize, lines 314-436: one token, or the error of an unexpected character
LexScanToken ==
    /\ LexLooping
    /\ UNCHANGED nonLexVars
    /\ ~at_line_start
    /\ current_char \notin SpaceTab \cup CrLf \cup {"#"}
    /\ LET char == current_char IN
       IF char \in Quotes
       THEN LET r == read_string(pos) IN
            IF r.end = "ok" THEN LexEmit(r.pos, "STRING")
            ELSE IF r.end = "unterminated" THEN LexRaise(r.pos, "fault")
            ELSE LexRaise(r.pos, "crash")
       ELSE IF char \in Digits
       THEN LexEmit(SkipWhile(pos, Digits), "INTEGER")
       ELSE IF char \in Alphas
       THEN LexEmit(SkipWhile(pos, Alphas \cup Digits), "IDENTIFIER")
       ELSE IF char = "="
       THEN (IF CharAt(pos + 1) = "=" THEN LexEmit(pos + 2, "EQ")
             ELSE LexEmit(pos + 1, "ASSIGN"))
       ELSE IF char = "!"
       THEN (IF CharAt(pos + 1) = "=" THEN LexEmit(pos + 2, "NE")
             ELSE LexRaise(pos + 1, "fault"))
       ELSE IF char \in SingleCharTokens
       THEN LexEmit(pos + 1, char)
       ELSE LexRaise(pos, "fault")

\* tokenize, lines 438-446: close the open levels, then EOF
LexFlush ==
    /\ lex_status = "running"
    /\ pos >= Len(source)
    /\ UNCHANGED nonLexVars
    /\ tokens' = tokens \o Repeat("DEDENT", Len(indent_stack) - 1) \o <<"EOF">>
    /\ indent_stack' = <<0>>
    /\ lex_status' = "done"
    /\ UNCHANGED <<source, pos, line, column, at_line_start>>

LexNext ==
    \/ LexLineStart
    \/ LexSkipWhitespace
    \/ LexSkipComment
    \/ LexNewline
    \/ LexScanToken
    \/ LexFlush

LexSpec == LexInit /\ [][LexNext]_vars

(***************************************************************************)
(* Claims about the lexer                                                  *)
(***************************************************************************)
StackIncreasing ==
    /\ Len(indent_stack) >= 1
    /\ indent_stack[1] = 0
    /\ \A i \in 1..(Len(indent_stack) - 1) : indent_stack[i] < indent_stack[i + 1]

\* C3: at every point of tokenization the indent stack is strictly increasing
\* from its bottom entry 0 and #INDENT - #DEDENT = stack height - 1; a
\* tokenization that succeeds has emitted as many INDENT as DEDENT tokens and
\* ends with its only EOF token.
C3_IndentBalance ==
    /\ StackIncreasing
    /\ CountOf(tokens, "INDENT") - CountOf(tokens, "DEDENT") = Len(indent_stack) - 1
    /\ lex_status = "done" =>
          /\ CountOf(tokens, "INDENT") = CountOf(tokens, "DEDENT")
          /\ Last(tokens) = "EOF"
          /\ CountOf(tokens, "EOF") = 1

\* two levels are still open at the end of the input and are closed before EOF
C3_Witness ==
    /\ lex_status = "done"
    /\ CountOf(tokens, "INDENT") = 2
    /\ Len(tokens) >= 3
    /\ SubSeq(tokens, Len(tokens) - 2, Len(tokens)) = <<"DEDENT", "DEDENT", "EOF">>

\* the line that starts at offset p holds something other than a comment
NonBlankLineAt(p) ==
    CharAt(SkipWhile(p, SpaceTab)) \notin {None, "#"} \cup CrLf

\* the number of entries of the stack that exceed w
Above(stack, w) == Cardinality({i \in 1..Len(stack) : stack[i] > w})

\* C4: at the start of every line that is neither blank nor a comment, with
\* w the indent width and top the stack top: w > top pushes exactly w and
\* emits exactly one INDENT; w = top emits nothing; w < top pops one level per
\* DEDENT while the top exceeds w, and tokenization fails (instead of
\* realigning) exactly when w is then not the new top.
C4_IndentStep ==
    [][(lex_status = "running" /\ at_line_start /\ NonBlankLineAt(pos)) =>
        LET w == IndentLevel(pos)
            top == Last(indent_stack)
            k == Above(indent_stack, w)
        IN
        /\ w > top => /\ indent_stack' = Append(indent_stack, w)
                       /\ tokens' = Append(tokens, "INDENT")
                       /\ lex_status' = "running"
        /\ w = top => /\ indent_stack' = indent_stack
                       /\ tokens' = tokens
                       /\ lex_status' = "running"
        /\ w < top => /\ indent_stack' = SubSeq(indent_stack, 1, Len(indent_stack) - k)
                       /\ tokens' = tokens \o Repeat("DEDENT", k)
                       /\ (lex_status' = "fault") = (Last(indent_stack') # w)
                       /\ lex_status' \in {"running", "fault"}
      ]_vars

\* a dedent popped a level and failed because the width is not a pushed level
C4_Witness ==
    /\ lex_status = "fault"
    /\ Len(tokens) >= 1
    /\ Last(tokens) = "DEDENT"
    /\ CountOf(tokens, "INDENT") >= 1

\* C5: tokenize returns a token sequence that ends with EOF or fails with a
\* tokenization fault; no other failure escapes it.
C5_OnlyTokenizationFaults ==
    /\ lex_status \in {"running", "done", "fault"}
    /\ lex_status = "done" => Last(tokens) = "EOF"


(***************************************************************************)
(* Abstract syntax tree (src/ethicalang/ast/nodes.py)                      *)
(*                                                                         *)
(* A node is a record with its class name in `kind`; a statement list is a *)
(* sequence; an absent optional child (ReturnStatement.value, else_body)   *)
(* is NoNode / the empty sequence.  A literal's value is a runtime value.  *)
(***************************************************************************)
NoneVal == [t |-> "none"]
IntVal(n) == [t |-> "int", i |-> n]
BoolVal(b) == [t |-> "bool", b |-> b]
StrVal(s) == [t |-> "str", s |-> s]
ListVal(xs) == [t |-> "list", items |-> xs]
FuncVal(node) == [t |-> "function", def |-> node]
BuiltinVal(name) == [t |-> "builtin", name |-> name]

NoNode == [kind |-> "NoneType"]

Program(statements) == [kind |-> "Program", statements |-> statements]
Annotation(name) == [kind |-> "Annotation", name |-> name]
FunctionDef(name, parameters, body, annotations) ==
    [kind |-> "FunctionDef", name |-> name, parameters |-> parameters,
     body |-> body, annotations |-> annotations]
\* Parser.parse_assignment builds Assignment(name, value): is_declaration keeps
\* its default, True
Assignment(name, value) ==
    [kind |-> "Assignment", name |-> name, value |-> value, is_declaration |-> TRUE]
Variable(name) == [kind |-> "Variable", name |-> name]
BinaryOp(left, operator, right) ==
    [kind |-> "BinaryOp", left |-> left, operator |-> operator, right |-> right]
UnaryOp(operator, operand) == [kind |-> "UnaryOp", operator |-> operator, operand |-> operand]
Literal(value, type_name) == [kind |-> "Literal", value |-> value, type_name |-> type_name]
ListLiteral(elements) == [kind |-> "ListLiteral", elements |-> elements]
DictLiteral(pairs) == [kind |-> "DictLiteral", pairs |-> pairs]
IfStatement(condition, then_body, else_body) ==
    [kind |-> "IfStatement", condition |-> condition, then_body |-> then_body,
     else_body |-> else_body]
WhileLoop(condition, body) == [kind |-> "WhileLoop", condition |-> condition, body |-> body]
ForLoop(variable, iterable, body) ==
    [kind |-> "ForLoop", variable |-> variable, iterable |-> iterable, body |-> body]
ReturnStatement(value) == [kind |-> "ReturnStatement", value |-> value]
FunctionCall(function, arguments) ==
    [kind |-> "FunctionCall", function |-> function, arguments |-> arguments]
MemberAccess(object, member) == [kind |-> "MemberAccess", object |-> object, member |-> member]
IndexAccess(object, index) == [kind |-> "IndexAccess", object |-> object, index |-> index]

\* shorthands for the literals Parser.parse_primary builds
IntLit(n) == Literal(IntVal(n), "int")
StrLit(s) == Literal(StrVal(s), "string")
BoolLit(b) == Literal(BoolVal(b), "bool")
NoneLit == Literal(NoneVal, "none")

(***************************************************************************)
(* Text.  Names and string literals are TLA+ strings; Chars spells out the *)
(* ones the model's programs and the analyzers' keyword lists use, so that *)
(* len, `in` and re.match are computed from the characters.  All of them   *)
(* are lower-case, so str.lower() leaves them as they are.                 *)
(***************************************************************************)
LowerLetters ==
    {"a", "b", "c", "d", "e", "f", "g", "h", "i", "j", "k", "l", "m",
     "n", "o", "p", "q", "r", "s", "t", "u", "v", "w", "x", "y", "z"}

DecimalDigits == {"0", "1", "2", "3", "4", "5", "6", "7", "8", "9"}

Chars(text) ==
    IF text \in LowerLetters \cup DecimalDigits \cup {"_"} THEN <<text>>
    ELSE CASE text = "result" ->
            <<"r", "e", "s", "u", "l", "t">>
      [] text = "total" ->
            <<"t", "o", "t", "a", "l">>
      [] text = "flag" ->
            <<"f", "l", "a", "g">>
      [] text = "count" ->
            <<"c", "o", "u", "n", "t">>
      [] text = "value" ->
            <<"v", "a", "l", "u", "e">>
      [] text = "user_password" ->
            <<"u", "s", "e", "r", "_", "p", "a", "s", "s", "w", "o", "r", "d">>
      [] text = "add" ->
            <<"a", "d", "d">>
      [] text = "expensive" ->
            <<"e", "x", "p", "e", "n", "s", "i", "v", "e">>
      [] text = "range" ->
            <<"r", "a", "n", "g", "e">>
      [] text = "calculate" ->
            <<"c", "a", "l", "c", "u", "l", "a", "t", "e">>
      [] text = "collect_location" ->
            <<"c", "o", "l", "l", "e", "c", "t", "_", "l", "o", "c", "a", "t", "i", "o", "n">>
      [] text = "get_gps" ->
            <<"g", "e", "t", "_", "g", "p", "s">>
      [] text = "run_facial_recognition" ->
            <<"r", "u", "n", "_", "f", "a", "c", "i", "a", "l", "_", "r", "e", "c", "o", "g", "n", "i", "t", "i", "o", "n">>
      [] text = "deepfake" ->
            <<"d", "e", "e", "p", "f", "a", "k", "e">>
      [] text = "my secret token" ->
            <<"m", "y", " ", "s", "e", "c", "r", "e", "t", " ", "t", "o", "k", "e", "n">>
      [] text = "temp" ->
            <<"t", "e", "m", "p">>
      [] text = "data" ->
            <<"d", "a", "t", "a">>
      [] text = "password" ->
            <<"p", "a", "s", "s", "w", "o", "r", "d">>
      [] text = "ssn" ->
            <<"s", "s", "n">>
      [] text = "credit_card" ->
            <<"c", "r", "e", "d", "i", "t", "_", "c", "a", "r", "d">>
      [] text = "secret_key" ->
            <<"s", "e", "c", "r", "e", "t", "_", "k", "e", "y">>
      [] text = "api_key" ->
            <<"a", "p", "i", "_", "k", "e", "y">>
      [] text = "secret" ->
            <<"s", "e", "c", "r", "e", "t">>
      [] text = "token" ->
            <<"t", "o", "k", "e", "n">>
      [] text = "facial_recognition" ->
            <<"f", "a", "c", "i", "a", "l", "_", "r", "e", "c", "o", "g", "n", "i", "t", "i", "o", "n">>
      [] text = "emotion_detection" ->
            <<"e", "m", "o", "t", "i", "o", "n", "_", "d", "e", "t", "e", "c", "t", "i", "o", "n">>
      [] text = "manipulate_ui" ->
            <<"m", "a", "n", "i", "p", "u", "l", "a", "t", "e", "_", "u", "i">>
      [] text = "hide_unsubscribe" ->
            <<"h", "i", "d", "e", "_", "u", "n", "s", "u", "b", "s", "c", "r", "i", "b", "e">>
      [] text = "fake_urgency" ->
            <<"f", "a", "k", "e", "_", "u", "r", "g", "e", "n", "c", "y">>
      [] text = "confuse_user" ->
            <<"c", "o", "n", "f", "u", "s", "e", "_", "u", "s", "e", "r">>
      [] text = "trick_into_purchase" ->
            <<"t", "r", "i", "c", "k", "_", "i", "n", "t", "o", "_", "p", "u", "r", "c", "h", "a", "s", "e">>
      [] text = "hidden_charges" ->
            <<"h", "i", "d", "d", "e", "n", "_", "c", "h", "a", "r", "g", "e", "s">>

\* len(text)
StrLen(text) == Len(Chars(text))

\* needle in haystack, both sequences of characters
IsSubSeq(needle, haystack) ==
    \E i \in 0..(Len(haystack) - Len(needle)) :
        SubSeq(haystack, i + 1, i + Len(needle)) = needle

\* keyword in text
Contains(text, keyword) == IsSubSeq(Chars(keyword), Chars(text))

\* the members of the ordered list keys that text contains, in list order
RECURSIVE Matching(_, _)
Matching(keys, text) ==
    IF keys = <<>> THEN <<>>
    ELSE (IF Contains(text, keys[1]) THEN <<keys[1]>> ELSE <<>>)
         \o Matching(Tail(keys), text)

\* the keys and values of DictLiteral.pairs in visiting order
RECURSIVE FlattenPairs(_)
FlattenPairs(pairs) ==
    IF pairs = <<>> THEN <<>> ELSE <<pairs[1][1], pairs[1][2]>> \o FlattenPairs(Tail(pairs))

Max(a, b) == IF a >= b THEN a ELSE b

Min(a, b) == IF a <= b THEN a ELSE b

Abs(n) == IF n < 0 THEN -n ELSE n

RECURSIVE Names(_)
Names(annotations) ==
    IF annotations = <<>> THEN {} ELSE {annotations[1].name} \cup Names(Tail(annotations))


(***************************************************************************)
(* Ethics pass (src/ethicalang/analysis/ethics.py)                         *)
(*                                                                         *)
(* The walk threads the checker's fields; `aborted` is the EthicalViolation*)
(* exception in flight: every visit after it is skipped up to analyze.     *)
(***************************************************************************)
REQUIRES_CONSENT ==
    {"collect_location", "get_gps", "track_location", "get_location",
     "collect_biometric", "get_fingerprint", "get_face", "scan_face",
     "record_audio", "access_microphone", "record_video", "access_camera",
     "collect_contacts", "read_contacts", "access_contacts",
     "read_messages", "access_messages", "read_sms",
     "track_user", "track_behavior", "log_activity", "monitor_user",
     "collect_data", "collect_personal_info", "gather_user_data"}

REQUIRES_DATA_PROTECTION ==
    {"store_password", "save_password", "store_credential",
     "store_payment", "process_payment", "save_card",
     "store_ssn", "store_personal_id", "save_sensitive_data"}

\* the keys of DISALLOWED_OPERATIONS, in the order of the dict
DISALLOWED_OPERATIONS ==
    <<"facial_recognition", "emotion_detection", "deepfake", "manipulate_ui",
      "hide_unsubscribe", "fake_urgency", "confuse_user", "trick_into_purchase",
      "hidden_charges">>

suspicious_names == <<"password", "ssn", "credit_card", "secret_key", "api_key">>

secret_keywords == {"password", "secret", "api_key", "token"}

EthicsInit(strict_mode) ==
    [strict_mode |-> strict_mode, violations |-> <<>>, current_function |-> None,
     current_annotations |-> {}, aborted |-> FALSE]

\* EthicsChecker.add_violation: append, then raise in strict mode
EthAddViolation_RaiseFirst(st, violation_type, subject) ==
    IF st.aborted THEN st
    ELSE IF st.strict_mode THEN [st EXCEPT !.aborted = TRUE]
    ELSE [st EXCEPT !.violations =
              Append(@, [type |-> violation_type, function |-> st.current_function,
                         subject |-> subject])]

EthAddViolation(st, violation_type, subject) ==
    IF st.aborted THEN st
    ELSE [st EXCEPT !.violations =
              Append(@, [type |-> violation_type, function |-> st.current_function,
                         subject |-> subject]),
                    !.aborted = st.strict_mode]

\* one violation of the given type per entry of subjects, in order
RECURSIVE EthAddEach(_, _, _)
EthAddEach(st, violation_type, subjects) ==
    IF subjects = <<>> THEN st
    ELSE EthAddEach(EthAddViolation(st, violation_type, subjects[1]),
                    violation_type, Tail(subjects))

\* EthicsChecker._check_function_name
EthCheckFunctionName_IgnoreAnnotations(st, function_name, annotation_names) ==
    IF function_name \in REQUIRES_CONSENT
    THEN EthAddViolation(st, "missing_consent_annotation", function_name)
    ELSE st

EthCheckFunctionName(st, function_name, annotation_names) ==
    LET s1 == IF function_name \in REQUIRES_CONSENT
                 /\ "requires_user_consent" \notin annotation_names
              THEN EthAddViolation(st, "missing_consent_annotation", function_name)
              ELSE st
        s2 == IF function_name \in REQUIRES_DATA_PROTECTION
                 /\ "requires_data_protection" \notin annotation_names
              THEN EthAddViolation(s1, "missing_protection_annotation", function_name)
              ELSE s1
    IN EthAddEach(s2, "disallowed_operation", Matching(DISALLOWED_OPERATIONS, function_name))

\* the checks of EthicsChecker.visit_FunctionCall on a callee named func_name
EthCheckCall(st, func_name) ==
    LET s1 == IF func_name \in REQUIRES_CONSENT
                 /\ "requires_user_consent" \notin st.current_annotations
              THEN EthAddViolation(st, "unauthorized_sensitive_call", func_name)
              ELSE st
        s2 == IF func_name \in REQUIRES_DATA_PROTECTION
                 /\ "requires_data_protection" \notin s1.current_annotations
              THEN EthAddViolation(s1, "unauthorized_data_operation", func_name)
              ELSE s1
    IN EthAddEach(s2, "disallowed_operation_call", Matching(DISALLOWED_OPERATIONS, func_name))

\* the loop of EthicsChecker.visit_Assignment over suspicious_names
EthCheckAssignedName(st, name) ==
    IF "requires_data_protection" \in st.current_annotations THEN st
    ELSE EthAddEach(st, "unprotected_sensitive_data", Matching(suspicious_names, name))

RECURSIVE EthVisit(_, _)
RECURSIVE EthVisitAll(_, _)

\* the for loops `for x in xs: self.visit(x)`
EthVisitAll(nodes, st) ==
    IF nodes = <<>> \/ st.aborted THEN st
    ELSE EthVisitAll(Tail(nodes), EthVisit(nodes[1], st))

\* ASTVisitor.visit dispatching to EthicsChecker.visit_<kind>
EthVisit(node, st) ==
    IF st.aborted THEN st
    ELSE CASE node.kind = "Program" -> EthVisitAll(node.statements, st)
      [] node.kind = "FunctionDef" ->
            LET s1 == [st EXCEPT !.current_function = node.name,
                                 !.current_annotations = Names(node.annotations)]
                s2 == EthCheckFunctionName(s1, node.name, Names(node.annotations))
                s3 == EthVisitAll(node.body, s2)
            IN IF s3.aborted THEN s3
               ELSE [s3 EXCEPT !.current_function = st.current_function,
                               !.current_annotations = st.current_annotations]
      [] node.kind = "FunctionCall" ->
            LET s1 == IF node.function.kind = "Variable"
                      THEN EthCheckCall(st, node.function.name) ELSE st
            IN EthVisitAll(node.arguments, EthVisit(node.function, s1))
      [] node.kind = "Assignment" ->
            EthVisit(node.value, EthCheckAssignedName(st, node.name))
      [] node.kind = "Variable" -> st
      [] node.kind = "BinaryOp" -> EthVisit(node.right, EthVisit(node.left, st))
      [] node.kind = "UnaryOp" -> EthVisit(node.operand, st)
      [] node.kind = "Literal" ->
            IF node.type_name = "string"
               /\ \E keyword \in secret_keywords : Contains(node.value.s, keyword)
            THEN EthAddViolation(st, "hardcoded_secret", node.value.s)
            ELSE st
      [] node.kind = "ListLiteral" -> EthVisitAll(node.elements, st)
      [] node.kind = "DictLiteral" -> EthVisitAll(FlattenPairs(node.pairs), st)
      [] node.kind = "IfStatement" ->
            EthVisitAll(node.else_body,
                        EthVisitAll(node.then_body, EthVisit(node.condition, st)))
      [] node.kind = "WhileLoop" -> EthVisitAll(node.body, EthVisit(node.condition, st))
      [] node.kind = "ForLoop" -> EthVisitAll(node.body, EthVisit(node.iterable, st))
      [] node.kind = "ReturnStatement" ->
            IF node.value # NoNode THEN EthVisit(node.value, st) ELSE st
      [] node.kind = "MemberAccess" -> EthVisit(node.object, st)
      [] node.kind = "IndexAccess" -> EthVisit(node.index, EthVisit(node.object, st))
      [] node.kind = "Annotation" -> st

\* EthicsChecker.analyze
EthicsAnalyze(root, strict_mode) ==
    LET st == EthVisit(root, EthicsInit(strict_mode)) IN
    [passed |-> Len(st.violations) = 0, violations |-> st.violations,
     strict_mode |-> strict_mode]


(***************************************************************************)
(* Cleverness pass (src/ethicalang/analysis/cleverness.py)                 *)
(***************************************************************************)
MAX_CHAINING_DEPTH == 3
MAX_EXPRESSION_DEPTH == 4
MAX_BINARY_OPS_PER_STATEMENT == 5
MAX_FUNCTION_ARGS == 5

ComparisonOps == {"==", "!=", "<", "<=", ">", ">="}
BitwiseOps == {"&", "|", "^", "<<", ">>"}
AllowedNumbers == {100, 1000, 24, 60, 365}

RECURSIVE get_expression_depth(_)
RECURSIVE MaxDepthOf(_)
RECURSIVE SumDepthOf(_)

\* max(depth(arg) for arg in arguments, default=0)
MaxDepthOf(nodes) ==
    IF nodes = <<>> THEN 0
    ELSE Max(get_expression_depth(nodes[1]), MaxDepthOf(Tail(nodes)))

\* sum(depth(e) for e in elements)
SumDepthOf(nodes) ==
    IF nodes = <<>> THEN 0
    ELSE get_expression_depth(nodes[1]) + SumDepthOf(Tail(nodes))

\* ClevernessDetector._get_expression_depth
get_expression_depth_MinOfOperands(node) ==
    CASE node.kind = "BinaryOp" ->
            1 + Min(get_expression_depth(node.left), get_expression_depth(node.right))
      [] node.kind = "UnaryOp" -> 1 + get_expression_depth(node.operand)
      [] node.kind = "FunctionCall" -> 2 + MaxDepthOf(node.arguments)
      [] node.kind \in {"MemberAccess", "IndexAccess"} ->
            1 + get_expression_depth(node.object)
      [] node.kind \in {"ListLiteral", "DictLiteral"} -> 2
      [] OTHER -> 1

get_expression_depth(node) ==
    CASE node.kind \in {"Literal", "Variable"} -> 1
      [] node.kind = "BinaryOp" ->
            1 + Max(get_expression_depth(node.left), get_expression_depth(node.right))
      [] node.kind = "UnaryOp" -> 1 + get_expression_depth(node.operand)
      [] node.kind = "FunctionCall" -> 2 + MaxDepthOf(node.arguments)
      [] node.kind \in {"MemberAccess", "IndexAccess"} ->
            1 + get_expression_depth(node.object)
      [] node.kind \in {"ListLiteral", "DictLiteral"} -> 2
      [] OTHER -> 1

CleverInit(strict_mode) ==
    [strict_mode |-> strict_mode, violations |-> <<>>, current_function |-> None,
     chaining_depth |-> 0, binary_op_count |-> 0, aborted |-> FALSE]

\* ClevernessDetector.add_violation: append, then raise in strict mode
ClvAddViolation(st, violation_type, detail) ==
    IF st.aborted THEN st
    ELSE [st EXCEPT !.violations =
              Append(@, [type |-> violation_type, function |-> st.current_function,
                         detail |-> detail]),
                    !.aborted = st.strict_mode]

ClvAddIf(st, cond, violation_type, detail) ==
    IF cond THEN ClvAddViolation(st, violation_type, detail) ELSE st

RECURSIVE ClvVisit(_, _)
RECURSIVE ClvVisitAll(_, _)

ClvVisitAll(nodes, st) ==
    IF nodes = <<>> \/ st.aborted THEN st
    ELSE ClvVisitAll(Tail(nodes), ClvVisit(nodes[1], st))

\* ASTVisitor.visit dispatching to ClevernessDetector.visit_<kind>
ClvVisit(node, st) ==
    IF st.aborted THEN st
    ELSE CASE node.kind = "Program" -> ClvVisitAll(node.statements, st)
      [] node.kind = "FunctionDef" ->
            LET s1 == [st EXCEPT !.current_function = node.name]
                s2 == ClvAddIf(s1, Len(node.parameters) > MAX_FUNCTION_ARGS,
                               "too_many_parameters", Len(node.parameters))
                one_liner == /\ Len(node.body) = 1
                             /\ node.body[1].kind = "ReturnStatement"
                             /\ node.body[1].value # NoNode
                depth == IF one_liner THEN get_expression_depth(node.body[1].value) ELSE 0
                s3 == ClvAddIf(s2, one_liner /\ depth > MAX_EXPRESSION_DEPTH,
                               "complex_one_liner", depth)
                s4 == ClvVisitAll(node.body, s3)
            IN IF s4.aborted THEN s4
               ELSE [s4 EXCEPT !.current_function = st.current_function]
      [] node.kind = "Assignment" ->
            LET depth == get_expression_depth(node.value)
                s1 == [st EXCEPT !.binary_op_count = 0]
                s2 == ClvAddIf(s1, depth > MAX_EXPRESSION_DEPTH, "complex_assignment", depth)
                s3 == ClvVisit(node.value, s2)
                s4 == ClvAddIf(s3, s3.binary_op_count > MAX_BINARY_OPS_PER_STATEMENT,
                               "dense_expression", s3.binary_op_count)
            IN IF s4.aborted THEN s4
               ELSE [s4 EXCEPT !.binary_op_count = st.binary_op_count]
      [] node.kind = "Variable" -> st
      [] node.kind = "BinaryOp" ->
            LET s1 == [st EXCEPT !.binary_op_count = @ + 1]
                s2 == ClvAddIf(s1, /\ node.operator \in ComparisonOps
                                   /\ node.left.kind = "BinaryOp"
                                   /\ node.left.operator \in ComparisonOps,
                               "chained_comparisons", 0)
                s3 == ClvAddIf(s2, node.operator \in BitwiseOps, "bitwise_operation", 0)
            IN ClvVisit(node.right, ClvVisit(node.left, s3))
      [] node.kind = "UnaryOp" -> ClvVisit(node.operand, st)
      [] node.kind = "Literal" ->
            ClvAddIf(st, /\ node.type_name \in {"int", "float"}
                         /\ node.value.t = "int"
                         /\ Abs(node.value.i) > 10
                         /\ node.value.i \notin AllowedNumbers,
                     "magic_number", IF node.value.t = "int" THEN node.value.i ELSE 0)
      [] node.kind = "ListLiteral" ->
            ClvVisitAll(node.elements,
                ClvAddIf(st, /\ Len(node.elements) > 0
                             /\ SumDepthOf(node.elements) > 3 * Len(node.elements),
                         "complex_list_literal", Len(node.elements)))
      [] node.kind = "DictLiteral" -> ClvVisitAll(FlattenPairs(node.pairs), st)
      [] node.kind = "IfStatement" ->
            LET cond_depth == get_expression_depth(node.condition)
                s1 == ClvAddIf(st, cond_depth > 3, "complex_condition", cond_depth)
            IN ClvVisitAll(node.else_body,
                           ClvVisitAll(node.then_body, ClvVisit(node.condition, s1)))
      [] node.kind = "WhileLoop" ->
            LET cond_depth == get_expression_depth(node.condition)
                s1 == ClvAddIf(st, cond_depth > 3, "complex_loop_condition", cond_depth)
            IN ClvVisitAll(node.body, ClvVisit(node.condition, s1))
      [] node.kind = "ForLoop" ->
            LET iter_depth == get_expression_depth(node.iterable)
                s1 == ClvAddIf(st, iter_depth > 2, "complex_iterable", iter_depth)
            IN ClvVisitAll(node.body, ClvVisit(node.iterable, s1))
      [] node.kind = "ReturnStatement" ->
            IF node.value = NoNode THEN st
            ELSE LET depth == get_expression_depth(node.value) IN
                 ClvVisit(node.value,
                          ClvAddIf(st, depth > MAX_EXPRESSION_DEPTH, "complex_return", depth))
      [] node.kind = "FunctionCall" ->
            LET s1 == ClvAddIf(st, Len(node.arguments) > MAX_FUNCTION_ARGS,
                               "too_many_arguments", Len(node.arguments))
                s2 == IF s1.aborted THEN s1 ELSE [s1 EXCEPT !.chaining_depth = @ + 1]
                s3 == ClvAddIf(s2, s2.chaining_depth > MAX_CHAINING_DEPTH,
                               "excessive_chaining", s2.chaining_depth)
                s4 == ClvVisitAll(node.arguments, ClvVisit(node.function, s3))
            IN IF s4.aborted THEN s4
               ELSE [s4 EXCEPT !.chaining_depth = st.chaining_depth]
      [] node.kind = "MemberAccess" ->
            LET s1 == [st EXCEPT !.chaining_depth = @ + 1]
                s2 == ClvAddIf(s1, s1.chaining_depth > MAX_CHAINING_DEPTH,
                               "excessive_member_chaining", s1.chaining_depth)
                s3 == ClvVisit(node.object, s2)
            IN IF s3.aborted THEN s3
               ELSE [s3 EXCEPT !.chaining_depth = st.chaining_depth]
      [] node.kind = "IndexAccess" -> ClvVisit(node.index, ClvVisit(node.object, st))
      [] node.kind = "Annotation" -> st

\* ClevernessDetector.analyze
ClevernessAnalyze(root, strict_mode) ==
    LET st == ClvVisit(root, CleverInit(strict_mode)) IN
    [passed |-> Len(st.violations) = 0, violations |-> st.violations,
     strict_mode |-> strict_mode]

(***************************************************************************)
(* Energy pass (src/ethicalang/analysis/energy.py)                         *)
(*                                                                         *)
(* `aborted` is the EnergyBudgetExceeded exception in flight.              *)
(***************************************************************************)
BASE_COSTS ==
    [literal |-> 1, variable |-> 1, assignment |-> 2, binary_op |-> 3, unary_op |-> 2,
     function_call |-> 10, return |-> 1, list_access |-> 5, dict_access |-> 7,
     member_access |-> 3]

ASSUMED_LOOP_ITERATIONS == 100
Energy_MAX_NESTING_DEPTH == 4
MAX_RECURSION_DEPTH == 10
\* visit_IfStatement: cost of the condition check
IfConditionCost == 5
\* visit_WhileLoop, visit_ForLoop: multipliers above this are reported
HighMultiplier == 200

EnergyInit(budget) ==
    [budget |-> budget, total_cost |-> 0, nesting_depth |-> 0, function_costs |-> <<>>,
     recursive_functions |-> {}, current_function |-> None, violations |-> <<>>,
     aborted |-> FALSE, added |-> <<>>]

\* EnergyAnalyzer.add_cost: add, then raise if the total is over the budget
\* (`added` is a history of the costs added, in order)
add_cost_Unchecked(st, cost) ==
    [st EXCEPT !.total_cost = @ + cost, !.added = Append(@, cost)]

add_cost(st, cost) ==
    IF st.aborted THEN st
    ELSE [st EXCEPT !.total_cost = @ + cost,
                    !.aborted = st.total_cost + cost > st.budget,
                    !.added = Append(@, cost)]

\* self.violations.append(...)
EnAppend(st, violation_type, detail) ==
    IF st.aborted THEN st
    ELSE [st EXCEPT !.violations = Append(@, [type |-> violation_type, detail |-> detail])]

\* self.function_costs[name] = cost
PutCost(function_costs, name, cost) ==
    [n \in DOMAIN function_costs \cup {name} |->
        IF n = name THEN cost ELSE function_costs[n]]

\* EnergyAnalyzer._contains_recursive_call: a call that is itself a statement
\* of the block, of a loop body or of an else branch (IfStatement has no
\* attribute `body`, so a then branch is not searched)
RECURSIVE contains_recursive_call(_, _)
contains_recursive_call(statements, function_name) ==
    IF statements = <<>> THEN FALSE
    ELSE LET stmt == statements[1] IN
         \/ CASE stmt.kind = "FunctionCall" ->
                    /\ stmt.function.kind = "Variable"
                    /\ stmt.function.name = function_name
              [] stmt.kind \in {"WhileLoop", "ForLoop"} ->
                    contains_recursive_call(stmt.body, function_name)
              [] stmt.kind = "IfStatement" ->
                    contains_recursive_call(stmt.else_body, function_name)
              [] OTHER -> FALSE
         \/ contains_recursive_call(Tail(statements), function_name)

RECURSIVE EnVisit(_, _)
RECURSIVE EnVisitAll(_, _)

\* `for x in xs: self.visit(x)`, also the walk of _estimate_block_cost
EnVisitAll(nodes, st) ==
    IF nodes = <<>> \/ st.aborted THEN st
    ELSE EnVisitAll(Tail(nodes), EnVisit(nodes[1], st))

\* the tail of visit_WhileLoop and visit_ForLoop, from the walk of the body on
EnLoopBody_OneIteration(node, st, iterations, report_type) ==
    LET s1 == EnVisitAll(node.body, st) IN
    IF s1.aborted THEN s1 ELSE [s1 EXCEPT !.nesting_depth = @ - 1]

EnLoopBody(node, st, iterations, report_type) ==
    LET s1 == EnVisitAll(node.body, st)
        body_cost == s1.total_cost - st.total_cost
        multiplier == iterations * 2 ^ (st.nesting_depth - 1)
        s2 == add_cost(s1, body_cost * multiplier)
        s3 == IF multiplier > HighMultiplier THEN EnAppend(s2, report_type, multiplier)
              ELSE s2
    IN IF s3.aborted THEN s3 ELSE [s3 EXCEPT !.nesting_depth = @ - 1]

\* nesting_depth += 1 and the check of the nesting depth
EnEnterLoop(st) ==
    LET s1 == [st EXCEPT !.nesting_depth = @ + 1] IN
    IF s1.nesting_depth > Energy_MAX_NESTING_DEPTH
    THEN EnAppend(s1, "excessive_nesting", s1.nesting_depth) ELSE s1

\* ASTVisitor.visit dispatching to EnergyAnalyzer.visit_<kind>
EnVisit(node, st) ==
    IF st.aborted THEN st
    ELSE CASE node.kind = "Program" -> EnVisitAll(node.statements, st)
      [] node.kind = "FunctionDef" ->
            LET s1 == EnVisitAll(node.body, [st EXCEPT !.current_function = node.name])
                function_cost == s1.total_cost - st.total_cost
                s2 == [s1 EXCEPT !.function_costs = PutCost(@, node.name, function_cost)]
                recursion_penalty == function_cost * MAX_RECURSION_DEPTH
                s3 == IF contains_recursive_call(node.body, node.name)
                      THEN EnAppend(add_cost([s2 EXCEPT !.recursive_functions =
                                                            @ \cup {node.name}],
                                             recursion_penalty),
                                    "recursion_detected", recursion_penalty)
                      ELSE s2
            IN IF s1.aborted THEN s1
               ELSE IF s3.aborted THEN s3
               ELSE [s3 EXCEPT !.current_function = st.current_function]
      [] node.kind = "Assignment" -> EnVisit(node.value, add_cost(st, BASE_COSTS.assignment))
      [] node.kind = "Variable" -> add_cost(st, BASE_COSTS.variable)
      [] node.kind = "BinaryOp" ->
            EnVisit(node.right, EnVisit(node.left, add_cost(st, BASE_COSTS.binary_op)))
      [] node.kind = "UnaryOp" -> EnVisit(node.operand, add_cost(st, BASE_COSTS.unary_op))
      [] node.kind = "Literal" -> add_cost(st, BASE_COSTS.literal)
      [] node.kind = "ListLiteral" ->
            EnVisitAll(node.elements, add_cost(st, Len(node.elements) * 2))
      [] node.kind = "DictLiteral" ->
            EnVisitAll(FlattenPairs(node.pairs), add_cost(st, Len(node.pairs) * 3))
      [] node.kind = "IfStatement" ->
            LET s1 == EnVisit(node.condition, add_cost(st, IfConditionCost))
                s2 == EnVisitAll(node.then_body, s1)
                then_cost == s2.total_cost - s1.total_cost
                s3 == EnVisitAll(node.else_body, s2)
                else_cost == s3.total_cost - s2.total_cost
            IN add_cost(s3, Max(then_cost, else_cost))
      [] node.kind = "WhileLoop" ->
            EnLoopBody(node, EnVisit(node.condition, EnEnterLoop(st)),
                       ASSUMED_LOOP_ITERATIONS, "unbounded_loop")
      [] node.kind = "ForLoop" ->
            EnLoopBody(node, EnVisit(node.iterable, EnEnterLoop(st)),
                       IF node.iterable.kind = "ListLiteral"
                       THEN Len(node.iterable.elements) ELSE ASSUMED_LOOP_ITERATIONS,
                       "high_iteration_loop")
      [] node.kind = "ReturnStatement" ->
            LET s1 == add_cost(st, BASE_COSTS.return) IN
            IF node.value # NoNode THEN EnVisit(node.value, s1) ELSE s1
      [] node.kind = "FunctionCall" ->
            LET s1 == EnVisitAll(node.arguments,
                          EnVisit(node.function, add_cost(st, BASE_COSTS.function_call)))
            IN IF node.function.kind = "Variable"
                  /\ node.function.name \in DOMAIN s1.function_costs
               THEN add_cost(s1, s1.function_costs[node.function.name])
               ELSE s1
      [] node.kind = "MemberAccess" ->
            EnVisit(node.object, add_cost(st, BASE_COSTS.member_access))
      [] node.kind = "IndexAccess" ->
            EnVisit(node.index, EnVisit(node.object, add_cost(st, BASE_COSTS.list_access)))
      [] node.kind = "Annotation" -> st

\* EnergyAnalyzer.analyze
EnergyAnalyze(root, budget) ==
    LET st == EnVisit(root, EnergyInit(budget))
        violations == IF st.total_cost > budget
                      THEN Append(st.violations,
                                  [type |-> "budget_exceeded", detail |-> st.total_cost])
                      ELSE st.violations
    IN [total_cost |-> st.total_cost, budget |-> budget,
        within_budget |-> st.total_cost <= budget, violations |-> violations,
        function_costs |-> st.function_costs]

(***************************************************************************)
(* Readability pass (src/ethicalang/analysis/readability.py)               *)
(*                                                                         *)
(* The scorer computes in floating point; the model computes the same      *)
(* quantities exactly: a name's score in tenths, the naming score as the   *)
(* fraction naming_num / naming_den, the overall score in tenths of a      *)
(* point.                                                                  *)
(***************************************************************************)
MAX_FUNCTION_LENGTH == 50
MAX_COMPLEXITY == 10
Readability_MAX_NESTING_DEPTH == 4
MIN_VARIABLE_NAME_LENGTH == 2
\* _score_variable_name: names longer than this lose 0.2
LongNameLength == 30
\* _calculate_scores: a naming score below this is reported as poor_naming
PoorNamingBelow == 70

bad_names == {"temp", "tmp", "data", "var", "val", "foo", "bar", "baz", "x1", "x2"}

CommonSingleLetters == {"i", "j", "x", "y", "z", "n", "k", "v"}

\* re.match(r'^[a-z][a-z0-9_]*$', name)
IsSnakeCase(name) ==
    LET cs == Chars(name) IN
    /\ Len(cs) >= 1
    /\ cs[1] \in LowerLetters
    /\ \A i \in 2..Len(cs) : cs[i] \in LowerLetters \cup DecimalDigits \cup {"_"}

\* ReadabilityScorer._score_variable_name, in tenths
score_variable_name(name) ==
    LET length == StrLen(name)
        s1 == 10 - (IF length < MIN_VARIABLE_NAME_LENGTH THEN 3
                    ELSE IF length > LongNameLength THEN 2 ELSE 0)
        s2 == s1 - (IF length = 1 /\ name \notin CommonSingleLetters THEN 4 ELSE 0)
        s3 == s2 - (IF name \in bad_names THEN 5 ELSE 0)
        s4 == s3 - (IF IsSnakeCase(name) THEN 0 ELSE 1)
        s5 == s4 + (IF length >= 5 /\ Contains(name, "_") THEN 2 ELSE 0)
    IN Max(0, Min(10, s5))

\* the issues _score_variable_name appends for one name
NameIssues(name) ==
    (IF StrLen(name) < MIN_VARIABLE_NAME_LENGTH
     THEN <<[type |-> "short_variable_name", subject |-> name]>> ELSE <<>>)
    \o (IF name \in bad_names
        THEN <<[type |-> "non_descriptive_name", subject |-> name]>> ELSE <<>>)

RECURSIVE SumNameScores(_)
SumNameScores(names) ==
    IF names = <<>> THEN 0 ELSE score_variable_name(names[1]) + SumNameScores(Tail(names))

RECURSIVE AllNameIssues(_)
AllNameIssues(names) ==
    IF names = <<>> THEN <<>> ELSE NameIssues(names[1]) \o AllNameIssues(Tail(names))

\* ReadabilityScorer._count_statements
RECURSIVE count_statements(_)
count_statements(statements) ==
    IF statements = <<>> THEN 0
    ELSE LET stmt == statements[1] IN
         1 + (CASE stmt.kind = "IfStatement" ->
                       count_statements(stmt.then_body) + count_statements(stmt.else_body)
                [] stmt.kind \in {"WhileLoop", "ForLoop"} -> count_statements(stmt.body)
                [] OTHER -> 0)
           + count_statements(Tail(statements))

ReadabilityInit(min_score) ==
    [min_score |-> min_score, current_function |-> None, function_stats |-> <<>>,
     nesting_depth |-> 0, max_nesting |-> 0, complexity |-> 0, variable_names |-> <<>>]

\* self.function_stats[name] = stats
PutStats(function_stats, name, stats) ==
    [n \in DOMAIN function_stats \cup {name} |->
        IF n = name THEN stats ELSE function_stats[n]]

RECURSIVE RdVisit(_, _)
RECURSIVE RdVisitAll(_, _)

RdVisitAll(nodes, st) ==
    IF nodes = <<>> THEN st ELSE RdVisitAll(Tail(nodes), RdVisit(nodes[1], st))

\* complexity += 1, nesting_depth += 1, max_nesting = max(...)
RdEnterBlock(st) ==
    [st EXCEPT !.complexity = @ + 1, !.nesting_depth = @ + 1,
               !.max_nesting = Max(@, st.nesting_depth + 1)]

RdLeaveBlock(st) == [st EXCEPT !.nesting_depth = @ - 1]

\* ASTVisitor.visit dispatching to ReadabilityScorer.visit_<kind>
RdVisit(node, st) ==
    CASE node.kind = "Program" -> RdVisitAll(node.statements, st)
      [] node.kind = "FunctionDef" ->
            LET s1 == RdVisitAll(node.body,
                                 [st EXCEPT !.current_function = node.name,
                                            !.complexity = 1, !.max_nesting = 0,
                                            !.nesting_depth = 0])
                stats == [length |-> count_statements(node.body),
                          complexity |-> s1.complexity, max_nesting |-> s1.max_nesting]
            IN [s1 EXCEPT !.function_stats = PutStats(@, node.name, stats),
                          !.current_function = st.current_function,
                          !.complexity = st.complexity + s1.complexity,
                          !.max_nesting = Max(st.max_nesting, s1.max_nesting),
                          !.nesting_depth = st.nesting_depth]
      [] node.kind = "Assignment" ->
            RdVisit(node.value,
                    IF node.is_declaration
                    THEN [st EXCEPT !.variable_names = Append(@, node.name)] ELSE st)
      [] node.kind \in {"Variable", "Literal", "Annotation"} -> st
      [] node.kind = "BinaryOp" ->
            RdVisit(node.right,
                RdVisit(node.left,
                    IF node.operator \in {"and", "or"}
                    THEN [st EXCEPT !.complexity = @ + 1] ELSE st))
      [] node.kind = "UnaryOp" -> RdVisit(node.operand, st)
      [] node.kind = "ListLiteral" -> RdVisitAll(node.elements, st)
      [] node.kind = "DictLiteral" -> RdVisitAll(FlattenPairs(node.pairs), st)
      [] node.kind = "IfStatement" ->
            LET s1 == RdVisitAll(node.then_body, RdVisit(node.condition, RdEnterBlock(st)))
                s2 == IF node.else_body # <<>>
                      THEN RdVisitAll(node.else_body, [s1 EXCEPT !.complexity = @ + 1])
                      ELSE s1
            IN RdLeaveBlock(s2)
      [] node.kind = "WhileLoop" ->
            RdLeaveBlock(RdVisitAll(node.body, RdVisit(node.condition, RdEnterBlock(st))))
      [] node.kind = "ForLoop" ->
            LET s1 == RdEnterBlock(st)
                s2 == [s1 EXCEPT !.variable_names = Append(@, node.variable)]
            IN RdLeaveBlock(RdVisitAll(node.body, RdVisit(node.iterable, s2)))
      [] node.kind = "ReturnStatement" ->
            IF node.value # NoNode THEN RdVisit(node.value, st) ELSE st
      [] node.kind = "FunctionCall" ->
            RdVisitAll(node.arguments, RdVisit(node.function, st))
      [] node.kind = "MemberAccess" -> RdVisit(node.object, st)
      [] node.kind = "IndexAccess" -> RdVisit(node.index, RdVisit(node.object, st))

RECURSIVE MaxOver(_, _)
\* max(f[n].length for n in names, default=0)
MaxOver(function_stats, names) ==
    IF names = {} THEN 0
    ELSE LET n == CHOOSE x \in names : TRUE IN
         Max(function_stats[n].length, MaxOver(function_stats, names \ {n}))

\* round(num / den, 0) of a non-negative fraction, ties to even
RoundHalfEven(num, den) ==
    LET q == num \div den
        r == num % den
    IN IF 2 * r > den \/ (2 * r = den /\ q % 2 = 1) THEN q + 1 ELSE q

\* ReadabilityScorer._calculate_scores: the component scores and the issues
calculate_scores(st) ==
    LET max_func_length == MaxOver(st.function_stats, DOMAIN st.function_stats)
        complexity_score ==
            IF st.complexity > MAX_COMPLEXITY
            THEN Max(0, 100 - Min(50, (st.complexity - MAX_COMPLEXITY) * 5)) ELSE 100
        nesting_score ==
            IF st.max_nesting > Readability_MAX_NESTING_DEPTH
            THEN Max(0, 100 - (st.max_nesting - Readability_MAX_NESTING_DEPTH) * 15)
            ELSE 100
        length_score ==
            IF max_func_length > MAX_FUNCTION_LENGTH
            THEN Max(0, 100 - Min(50, max_func_length - MAX_FUNCTION_LENGTH)) ELSE 100
        names == st.variable_names
        naming_num == IF names = <<>> THEN 100 ELSE 10 * SumNameScores(names)
        naming_den == IF names = <<>> THEN 1 ELSE Len(names)
    IN [scores |-> [complexity |-> complexity_score, nesting |-> nesting_score,
                    function_length |-> length_score,
                    naming_num |-> naming_num, naming_den |-> naming_den],
        issues |->
            (IF st.complexity > MAX_COMPLEXITY
             THEN <<[type |-> "high_complexity", subject |-> st.complexity]>> ELSE <<>>)
            \o (IF st.max_nesting > Readability_MAX_NESTING_DEPTH
                THEN <<[type |-> "deep_nesting", subject |-> st.max_nesting]>> ELSE <<>>)
            \o (IF max_func_length > MAX_FUNCTION_LENGTH
                THEN <<[type |-> "long_function", subject |-> max_func_length]>> ELSE <<>>)
            \o AllNameIssues(names)
            \o (IF naming_num < PoorNamingBelow * naming_den
                THEN <<[type |-> "poor_naming", subject |-> naming_num]>> ELSE <<>>)]

\* ReadabilityScorer.analyze, on a freshly constructed scorer; the weights
\* 0.30, 0.25, 0.20, 0.25 are taken in hundredths and overall_score is
\* round(..., 1), kept in tenths
ReadabilityAnalyze(root, min_score) ==
    LET st == RdVisit(root, ReadabilityInit(min_score))
        c == calculate_scores(st)
        overall_tenths ==
            RoundHalfEven((30 * c.scores.complexity + 25 * c.scores.nesting
                           + 20 * c.scores.function_length) * c.scores.naming_den
                          + 25 * c.scores.naming_num,
                          10 * c.scores.naming_den)
        passed == overall_tenths >= 10 * min_score
    IN [overall_score |-> overall_tenths, min_score |-> min_score, passed |-> passed,
        scores |-> c.scores,
        issues |-> IF passed THEN c.issues
                   ELSE Append(c.issues, [type |-> "low_readability",
                                          subject |-> overall_tenths]),
        function_stats |-> st.function_stats]

(***************************************************************************)
(* The trees the analysis passes are applied to: every program of at most  *)
(* MaxStmts top-level statements drawn from StatementPool, written as the  *)
(* parser builds them.                                                     *)
(***************************************************************************)
Add(l, r) == BinaryOp(l, "+", r)

\* function add(a, b): return a + b
AddDef == FunctionDef("add", <<"a", "b">>,
                      <<ReturnStatement(Add(Variable("a"), Variable("b")))>>, <<>>)

\* result = add(3, 4)
AddCall == Assignment("result", FunctionCall(Variable("add"), <<IntLit(3), IntLit(4)>>))

\* user_password = "my secret token"
SecretAssign == Assignment("user_password", StrLit("my secret token"))

\* function collect_location(): return get_gps()
CollectDef(annotations) ==
    FunctionDef("collect_location", <<>>,
                <<ReturnStatement(FunctionCall(Variable("get_gps"), <<>>))>>, annotations)

\* x = run_facial_recognition(42)
FaceCall == Assignment("x", FunctionCall(Variable("run_facial_recognition"), <<IntLit(42)>>))

\* y = a < b < 255
ChainedCompare ==
    Assignment("y", BinaryOp(BinaryOp(Variable("a"), "<", Variable("b")), "<", IntLit(255)))

\* a + b + c + d
Sum4 == Add(Add(Add(Variable("a"), Variable("b")), Variable("c")), Variable("d"))

\* if a + b + c + d > 0: flag = True  else: flag = False
DeepIf == IfStatement(BinaryOp(Sum4, ">", IntLit(0)),
                      <<Assignment("flag", BoolLit(TRUE))>>,
                      <<Assignment("flag", BoolLit(FALSE))>>)

\* z = a + b + c + d + e + f + g
DenseAssign ==
    Assignment("z", Add(Add(Add(Sum4, Variable("e")), Variable("f")), Variable("g")))

\* for i in [1, 2, 3]: total = total + i
SumLoop == ForLoop("i", ListLiteral(<<IntLit(1), IntLit(2), IntLit(3)>>),
                   <<Assignment("total", Add(Variable("total"), Variable("i")))>>)

\* while n > 0: n = n - 1
CountDown == WhileLoop(BinaryOp(Variable("n"), ">", IntLit(0)),
                       <<Assignment("n", BinaryOp(Variable("n"), "-", IntLit(1)))>>)

\* function deepfake(a, b, c, d, e, f): return -(a + b + c + d)
DeepfakeDef ==
    FunctionDef("deepfake", <<"a", "b", "c", "d", "e", "f">>,
                <<ReturnStatement(UnaryOp("-", Sum4))>>, <<>>)

\* w = f(g(h(k(1))))
Chain == Assignment("w",
    FunctionCall(Variable("f"), <<FunctionCall(Variable("g"),
        <<FunctionCall(Variable("h"), <<FunctionCall(Variable("k"), <<IntLit(1)>>)>>)>>)>>))

\* function collect_location(): return none
CollectNone(annotations) ==
    FunctionDef("collect_location", <<>>, <<ReturnStatement(NoneLit)>>, annotations)

\* result = collect_location()
CollectCall == Assignment("result", FunctionCall(Variable("collect_location"), <<>>))

\* the tree of tests/test_integration.py test_with_annotations_passes
ConsentProgram ==
    Program(<<CollectNone(<<Annotation("requires_user_consent")>>), CollectCall>>)

\* for i in <iterable>: for j in <iterable>: for k in <iterable>: <body>
TripleLoop(iterable, body) ==
    ForLoop("i", iterable, <<ForLoop("j", iterable, <<ForLoop("k", iterable, body)>>)>>)

\* range(n)
RangeCall(n) == FunctionCall(Variable("range"), <<IntLit(n)>>)

\* x = i + j + k
SumIJK == Assignment("x", Add(Add(Variable("i"), Variable("j")), Variable("k")))

\* function expensive(): <three nested loops over range(n)>; return x
ExpensiveDef(n) ==
    FunctionDef("expensive", <<>>,
                <<TripleLoop(RangeCall(n), <<SumIJK>>), ReturnStatement(Variable("x"))>>,
                <<>>)

\* result = expensive()
ExpensiveCall == Assignment("result", FunctionCall(Variable("expensive"), <<>>))

\* programs of three nested loops whose iterable is not a literal sequence:
\* those of test_energy_nested_loops_fails and test_bad_energy_fails, and
\* loops at top level around `x = 1` and around the expression statement `1`
TripleLoopPrograms ==
    {Program(<<ExpensiveDef(100)>>),
     Program(<<ExpensiveDef(50), ExpensiveCall>>),
     Program(<<TripleLoop(RangeCall(100), <<Assignment("x", IntLit(1))>>)>>),
     Program(<<TripleLoop(Variable("data"), <<IntLit(1)>>)>>)}

\* function f(x): a = x + 1; b = a * 2; c = b - 3; d = c / 4; e = d + 5; return e
PoorNamesDef ==
    FunctionDef("f", <<"x">>,
                <<Assignment("a", BinaryOp(Variable("x"), "+", IntLit(1))),
                  Assignment("b", BinaryOp(Variable("a"), "*", IntLit(2))),
                  Assignment("c", BinaryOp(Variable("b"), "-", IntLit(3))),
                  Assignment("d", BinaryOp(Variable("c"), "/", IntLit(4))),
                  Assignment("e", BinaryOp(Variable("d"), "+", IntLit(5))),
                  ReturnStatement(Variable("e"))>>,
                <<>>)

\* trees of tests/test_analyzers.py and tests/test_integration.py
\* f(n)
SelfCall == FunctionCall(Variable("f"), <<Variable("n")>>)

\* function f(n): <body>
SelfDef(body) == FunctionDef("f", <<"n">>, body, <<>>)

\* functions whose body calls the function itself: as a statement, in a return
\* expression, in the value of an assignment, in the then branch and in the
\* else branch of an if, in the body of a for loop
RecursiveDefs ==
    {SelfDef(<<SelfCall>>),
     SelfDef(<<ReturnStatement(SelfCall)>>),
     SelfDef(<<Assignment("x", SelfCall)>>),
     SelfDef(<<IfStatement(Variable("n"), <<SelfCall>>, <<>>)>>),
     SelfDef(<<IfStatement(Variable("n"), <<Assignment("x", IntLit(1))>>, <<SelfCall>>)>>),
     SelfDef(<<ForLoop("i", ListLiteral(<<IntLit(1)>>), <<SelfCall>>)>>)}

\* while true: x = 1
ForeverLoop == WhileLoop(BoolLit(TRUE), <<Assignment("x", IntLit(1))>>)

AnalysisExamples ==
    {Program(<<CollectNone(<<>>)>>),
     Program(<<CollectNone(<<Annotation("requires_user_consent")>>)>>),
     Program(<<CollectNone(<<>>), CollectCall>>),
     ConsentProgram,
     Program(<<PoorNamesDef>>)}
    \cup TripleLoopPrograms
    \cup {Program(<<def>>) : def \in RecursiveDefs}
    \cup {Program(<<ForeverLoop>>)}

StatementPool ==
    {AddDef, AddCall, SecretAssign, CollectDef(<<>>),
     CollectDef(<<Annotation("requires_user_consent")>>), FaceCall, ChainedCompare,
     DeepIf, DenseAssign, SumLoop, CountDown, DeepfakeDef, Chain}

MaxStmts == 2

\* the budgets and thresholds the passes are configured with
TightBudget == 40
Budgets == {DefaultBudget, TightBudget}

HighMinScore == 95
MinScores == {DefaultMinScore, HighMinScore}

Programs ==
    {Program(statements) : statements \in SeqsUpTo(StatementPool, MaxStmts)}
    \cup AnalysisExamples

(***************************************************************************)
(* AnalysisSpec: the passes applied to one tree, each configuration of a   *)
(* pass once and by a freshly constructed analyzer                         *)
(***************************************************************************)
AnalysisInit ==
    /\ tree \in Programs
    /\ reports = [key \in ReportKeys |-> NoReport]
    /\ energy_report = NoReport
    /\ readability_report = NoReport
    /\ analyzer = [pass |-> "none"]
    /\ replies = <<>>
    /\ LexIdle
    /\ ParseIdle
    /\ RunIdle
    /\ PipelineIdle

\* EthicsChecker(strict_mode).analyze(tree)
AnalyzeEthics ==
    \E strict_mode \in BOOLEAN :
        /\ reports[<<"ethics", strict_mode>>] = NoReport
        /\ reports' = [reports EXCEPT ![<<"ethics", strict_mode>>] =
                            EthicsAnalyze(tree, strict_mode)]
        /\ UNCHANGED <<tree, energy_report, readability_report, analyzer, replies, lexVars, parseVars, runVars, pipeVars>>

\* ClevernessDetector(strict_mode).analyze(tree)
AnalyzeCleverness ==
    \E strict_mode \in BOOLEAN :
        /\ reports[<<"cleverness", strict_mode>>] = NoReport
        /\ reports' = [reports EXCEPT ![<<"cleverness", strict_mode>>] =
                            ClevernessAnalyze(tree, strict_mode)]
        /\ UNCHANGED <<tree, energy_report, readability_report, analyzer, replies, lexVars, parseVars, runVars, pipeVars>>

\* EnergyAnalyzer(budget).analyze(tree)
AnalyzeEnergy ==
    \E budget \in Budgets :
        /\ energy_report = NoReport
        /\ energy_report' = EnergyAnalyze(tree, budget)
        /\ UNCHANGED <<tree, reports, readability_report, analyzer, replies, lexVars, parseVars, runVars, pipeVars>>

\* ReadabilityScorer(min_score).analyze(tree)
AnalyzeReadability ==
    \E min_score \in MinScores :
        /\ readability_report = NoReport
        /\ readability_report' = ReadabilityAnalyze(tree, min_score)
        /\ UNCHANGED <<tree, reports, energy_report, analyzer, replies, lexVars, parseVars, runVars, pipeVars>>

AnalysisNext ==
    \/ AnalyzeEthics
    \/ AnalyzeCleverness
    \/ AnalyzeEnergy
    \/ AnalyzeReadability

AnalysisSpec == AnalysisInit /\ [][AnalysisNext]_vars

(***************************************************************************)
(* Claims about the strict and collect-all modes                           *)
(***************************************************************************)
\* the first element of a list, as a list
FirstOf(violations) == IF violations = <<>> THEN <<>> ELSE <<violations[1]>>

\* the collect-all reports of the one-statement programs, concatenated
RECURSIVE EthicsPerStatement(_)
EthicsPerStatement(statements) ==
    IF statements = <<>> THEN <<>>
    ELSE EthicsAnalyze(Program(<<statements[1]>>), FALSE).violations
         \o EthicsPerStatement(Tail(statements))

RECURSIVE ClevernessPerStatement(_)
ClevernessPerStatement(statements) ==
    IF statements = <<>> THEN <<>>
    ELSE ClevernessAnalyze(Program(<<statements[1]>>), FALSE).violations
         \o ClevernessPerStatement(Tail(statements))

Ran(key) == reports[key] # NoReport

\* C10: for the Ethics and the Cleverness pass alike, a report passes exactly
\* when its violation list is empty; the collect-all report lists the
\* violations of every statement of the tree in traversal order; and the
\* strict report of the same tree lists exactly the first violation of the
\* collect-all report (so it is empty exactly when that one is): the violation
\* is recorded before the walk is abandoned.
C10_StrictIsFirstOfAll ==
    /\ \A key \in ReportKeys :
          Ran(key) =>
             /\ reports[key].passed = (reports[key].violations = <<>>)
             /\ reports[key].strict_mode = key[2]
    /\ Ran(<<"ethics", FALSE>>) =>
          reports[<<"ethics", FALSE>>].violations = EthicsPerStatement(tree.statements)
    /\ Ran(<<"cleverness", FALSE>>) =>
          reports[<<"cleverness", FALSE>>].violations
              = ClevernessPerStatement(tree.statements)
    /\ \A pass \in {"ethics", "cleverness"} :
          Ran(<<pass, TRUE>>) /\ Ran(<<pass, FALSE>>) =>
             reports[<<pass, TRUE>>].violations
                 = FirstOf(reports[<<pass, FALSE>>].violations)

\* both modes of both passes have run on a tree with several violations of each
C10_Witness ==
    /\ \A key \in ReportKeys : Ran(key)
    /\ \A pass \in {"ethics", "cleverness"} :
          /\ Len(reports[<<pass, FALSE>>].violations) >= 3
          /\ Len(reports[<<pass, TRUE>>].violations) = 1
          /\ ~reports[<<pass, TRUE>>].passed

(***************************************************************************)
(* Interpreter (src/ethicalang/runtime/interpreter.py)                     *)
(*                                                                         *)
(* Runtime values are the tagged records NoneVal, IntVal, BoolVal, StrVal, *)
(* ListVal, FuncVal, BuiltinVal, and FloatVal / DictVal below.  A float is *)
(* kept as an exact fraction in lowest terms.                              *)
(***************************************************************************)
RECURSIVE Gcd(_, _)
Gcd(a, b) == IF b = 0 THEN a ELSE Gcd(b, a % b)

\* the float num / den, den # 0
FloatVal(num, den) ==
    LET g == Gcd(Abs(num), Abs(den))
        sign == IF den < 0 THEN -1 ELSE 1
    IN [t |-> "float", num |-> sign * (num \div g), den |-> sign * (den \div g)]

\* a dict, as its (key, value) pairs in insertion order
DictVal(pairs) == [t |-> "dict", pairs |-> pairs]

IsNumber(v) == v.t \in {"int", "bool", "float"}

\* numerator and denominator of a number; True is 1 and False is 0
NumOf(v) == CASE v.t = "int" -> v.i
              [] v.t = "bool" -> IF v.b THEN 1 ELSE 0
              [] v.t = "float" -> v.num
              [] OTHER -> 0

DenOf(v) == IF v.t = "float" THEN v.den ELSE 1

\* the number num / den, a float if an operand was one
Number(num, den, is_float) ==
    IF is_float THEN FloatVal(num, den) ELSE IntVal(num \div den)

\* Python's ==
PyEq(l, r) ==
    IF IsNumber(l) /\ IsNumber(r) THEN NumOf(l) * DenOf(r) = NumOf(r) * DenOf(l)
    ELSE l.t = r.t /\ l = r

\* Python's % on integers, b # 0: the result has the sign of b
PyMod(a, b) == IF b > 0 THEN a % b ELSE -((-a) % (-b))

\* Interpreter._is_truthy
is_truthy(value) ==
    CASE value.t = "none" -> FALSE
      [] IsNumber(value) -> NumOf(value) # 0
      [] value.t = "str" -> value.s # ""
      [] value.t = "list" -> value.items # <<>>
      [] value.t = "dict" -> value.pairs # <<>>
      [] OTHER -> TRUE

\* results of an operator: a value, RuntimeError ("fault"), another Python
\* exception that no handler of the interpreter catches ("crash"), or a case
\* of Python's arithmetic that the model does not compute ("unmodelled")
Value(v) == [out |-> "normal", val |-> v]
Fails(out, message) == [out |-> out, val |-> StrVal(message)]

\* the arithmetic and comparison arms of Interpreter.visit_BinaryOp
BinaryValue_PlusSubtracts(operator, left, right) ==
    IF operator = "+" /\ IsNumber(left) /\ IsNumber(right)
    THEN Value(IntVal(NumOf(left) - NumOf(right)))
    ELSE Fails("unmodelled", "other operators")

BinaryValue(operator, left, right) ==
    LET numbers == IsNumber(left) /\ IsNumber(right)
        ints == left.t \in {"int", "bool"} /\ right.t \in {"int", "bool"}
        is_float == ~ints
        ln == NumOf(left)
        ld == DenOf(left)
        rn == NumOf(right)
        rd == DenOf(right)
        Compare(holds) == IF numbers THEN Value(BoolVal(holds))
                          ELSE IF left.t = right.t /\ left.t \in {"str", "list"}
                          THEN Fails("unmodelled", "ordering of sequences")
                          ELSE Fails("crash", "TypeError")
    IN CASE operator = "+" ->
                IF numbers THEN Value(Number(ln * rd + rn * ld, ld * rd, is_float))
                ELSE IF left.t = "list" /\ right.t = "list"
                THEN Value(ListVal(left.items \o right.items))
                ELSE IF left.t = "str" /\ right.t = "str"
                THEN Fails("unmodelled", "string concatenation")
                ELSE Fails("crash", "TypeError")
         [] operator = "-" ->
                IF numbers THEN Value(Number(ln * rd - rn * ld, ld * rd, is_float))
                ELSE Fails("crash", "TypeError")
         [] operator = "*" ->
                IF numbers THEN Value(Number(ln * rn, ld * rd, is_float))
                ELSE IF {left.t, right.t} \subseteq {"int", "bool", "str", "list"}
                THEN Fails("unmodelled", "sequence repetition")
                ELSE Fails("crash", "TypeError")
         [] operator = "/" ->
                IF IsNumber(right) /\ rn = 0 THEN Fails("fault", "Division by zero")
                ELSE IF numbers THEN Value(FloatVal(ln * rd, ld * rn))
                ELSE Fails("crash", "TypeError")
         [] operator = "%" ->
                IF ints THEN (IF rn = 0 THEN Fails("crash", "ZeroDivisionError")
                              ELSE Value(IntVal(PyMod(ln, rn))))
                ELSE IF numbers THEN Fails("unmodelled", "float modulo")
                ELSE IF left.t = "str" THEN Fails("unmodelled", "string formatting")
                ELSE Fails("crash", "TypeError")
         [] operator = "**" ->
                IF ints /\ rn >= 0 THEN Value(IntVal(ln ^ rn))
                ELSE IF numbers THEN Fails("unmodelled", "float power")
                ELSE Fails("crash", "TypeError")
         [] operator = "==" -> Value(BoolVal(PyEq(left, right)))
         [] operator = "!=" -> Value(BoolVal(~PyEq(left, right)))
         [] operator = "<" -> Compare(ln * rd < rn * ld)
         [] operator = "<=" -> Compare(ln * rd <= rn * ld)
         [] operator = ">" -> Compare(ln * rd > rn * ld)
         [] operator = ">=" -> Compare(ln * rd >= rn * ld)
         [] OTHER -> Fails("fault", "Unknown operator")

\* Interpreter.visit_UnaryOp, applied to the operand's value
UnaryValue(operator, operand) ==
    CASE operator = "-" ->
            IF IsNumber(operand)
            THEN Value(Number(-NumOf(operand), DenOf(operand), operand.t = "float"))
            ELSE Fails("crash", "TypeError")
      [] operator = "not" -> Value(BoolVal(~is_truthy(operand)))
      [] OTHER -> Fails("fault", "Unknown unary operator")

(***************************************************************************)
(* Environment: the interpreter's environments live in the sequence envs;  *)
(* an environment is named by its index, env 1 is global_env and parent 0  *)
(* is None.                                                                *)
(***************************************************************************)
GlobalEnv == 1

\* bindings[name] = value
Bind(bindings, name, value) ==
    [n \in DOMAIN bindings \cup {name} |-> IF n = name THEN value ELSE bindings[n]]

\* Environment(parent), appended to envs; made_by records the visit that
\* constructed it ("init", "call" or "loop")
NewEnvironment(envs, parent, bindings, made_by) ==
    Append(envs, [parent |-> parent, bindings |-> bindings, made_by |-> made_by])

\* Environment.define
Env_define_Nearest(envs, env, name, value) ==
    LET RECURSIVE Holder(_)
        Holder(e) == IF name \in DOMAIN envs[e].bindings \/ envs[e].parent = 0 THEN e
                     ELSE Holder(envs[e].parent)
        found == Holder(env)
        target == IF name \in DOMAIN envs[found].bindings THEN found ELSE env
    IN [envs EXCEPT ![target].bindings = Bind(@, name, value)]

Env_define(envs, env, name, value) ==
    [envs EXCEPT ![env].bindings = Bind(@, name, value)]

\* the environment of the chain from env that binds name, 0 if none does
RECURSIVE Env_lookup(_, _, _)
Env_lookup(envs, env, name) ==
    IF name \in DOMAIN envs[env].bindings THEN env
    ELSE IF envs[env].parent # 0 THEN Env_lookup(envs, envs[env].parent, name)
    ELSE 0

\* Environment.exists
Env_exists(envs, env, name) == Env_lookup(envs, env, name) # 0

\* Environment.get, where the name exists
Env_get(envs, env, name) == envs[Env_lookup(envs, env, name)].bindings[name]

\* Environment.set, where the name exists
Env_set(envs, env, name, value) ==
    Env_define(envs, Env_lookup(envs, env, name), name, value)

Builtins ==
    {"print", "len", "range", "str", "int", "float", "type", "abs", "min", "max", "sum"}

\* Interpreter.__init__ and _register_builtins
InitialEnvs ==
    NewEnvironment(<<>>, 0, [name \in Builtins |-> BuiltinVal(name)], "init")

(***************************************************************************)
(* Built-in functions.  Every exception a built-in raises is re-raised as  *)
(* RuntimeError by visit_FunctionCall.                                     *)
(***************************************************************************)
RECURSIVE SumOf(_)
SumOf(items) ==
    IF items = <<>> THEN IntVal(0)
    ELSE LET rest == SumOf(Tail(items)) IN
         Number(NumOf(items[1]) * DenOf(rest) + NumOf(rest) * DenOf(items[1]),
                DenOf(items[1]) * DenOf(rest),
                items[1].t = "float" \/ rest.t = "float")

\* the first smallest (sign 1) or largest (sign -1) of a sequence of numbers
RECURSIVE Extreme(_, _)
Extreme(items, sign) ==
    IF Len(items) = 1 THEN items[1]
    ELSE LET rest == Extreme(Tail(items), sign) IN
         IF sign * NumOf(rest) * DenOf(items[1]) < sign * NumOf(items[1]) * DenOf(rest)
         THEN rest ELSE items[1]

AllNumbers(items) == \A i \in 1..Len(items) : IsNumber(items[i])

AllInts(items) == \A i \in 1..Len(items) : items[i].t \in {"int", "bool"}

\* list(range(start, stop))
RangeList(start, stop) ==
    ListVal([i \in 1..Max(0, stop - start) |-> IntVal(start + i - 1)])

\* function(*args) for the built-in called name
CallBuiltin(name, args) ==
    CASE name = "print" -> Value(NoneVal)
      [] name = "len" ->
            IF Len(args) # 1 THEN Fails("fault", "Error calling built-in function")
            ELSE IF args[1].t = "list" THEN Value(IntVal(Len(args[1].items)))
            ELSE IF args[1].t = "dict" THEN Value(IntVal(Len(args[1].pairs)))
            ELSE IF args[1].t = "str" THEN Value(IntVal(StrLen(args[1].s)))
            ELSE Fails("fault", "Error calling built-in function")
      [] name = "abs" ->
            IF Len(args) = 1 /\ IsNumber(args[1])
            THEN Value(Number(Abs(NumOf(args[1])), DenOf(args[1]), args[1].t = "float"))
            ELSE Fails("fault", "Error calling built-in function")
      [] name = "sum" ->
            IF Len(args) = 1 /\ args[1].t = "list" /\ AllNumbers(args[1].items)
            THEN Value(SumOf(args[1].items))
            ELSE Fails("fault", "Error calling built-in function")
      [] name = "range" ->
            IF Len(args) \in {1, 2} /\ AllInts(args)
            THEN Value(IF Len(args) = 1 THEN RangeList(0, NumOf(args[1]))
                       ELSE RangeList(NumOf(args[1]), NumOf(args[2])))
            ELSE IF Len(args) = 3 /\ AllInts(args)
            THEN Fails("unmodelled", "range with a step")
            ELSE Fails("fault", "Error calling built-in function")
      [] name \in {"min", "max"} ->
            LET items == IF Len(args) = 1 /\ args[1].t = "list" THEN args[1].items
                         ELSE args
            IN IF items = <<>> THEN Fails("fault", "Error calling built-in function")
               ELSE IF Len(items) = 1 THEN Value(items[1])
               ELSE IF AllNumbers(items)
               THEN Value(Extreme(items, IF name = "min" THEN 1 ELSE -1))
               ELSE Fails("unmodelled", "ordering of other values")
      [] OTHER -> Fails("unmodelled", "conversion built-ins")

(***************************************************************************)
(* The tree walk.  An interpreter state is a record:                       *)
(*   envs, current_env   the environments and self.current_env             *)
(*   out                 "normal", or the exception in flight: "return"    *)
(*                       (ReturnValue), "fault" (RuntimeError), "crash"    *)
(*                       (any other exception), "unmodelled", "timeout"    *)
(*                       (the model's step bound is used up)               *)
(*   val                 the value the visit returned, the value carried   *)
(*                       by ReturnValue, or the message of the error       *)
(*   fuel                loop iterations and calls the walk may still make *)
(*   last_assigned       history: the value of the last assignment that    *)
(*                       completed, NoAssignment before the first          *)
(*   output              the argument lists handed to print                *)
(***************************************************************************)
NoAssignment == [t |-> "unassigned"]

NewInterpreter(fuel) ==
    [envs |-> InitialEnvs, current_env |-> GlobalEnv, out |-> "normal", val |-> NoneVal,
     fuel |-> fuel, last_assigned |-> NoAssignment, output |-> <<>>]

Returns(s, value) == [s EXCEPT !.val = value]

Raise(s, out, message) == [s EXCEPT !.out = out, !.val = StrVal(message)]

\* the message of Environment.get's RuntimeError: f"Undefined variable: {name}"
UndefinedVariable(name) == <<"Undefined variable: ", name>>

\* the result r of an operator as the outcome of the visit
Outcome(s, r) == [s EXCEPT !.out = r.out, !.val = r.val]

\* one loop iteration or call is charged to the step bound
Tick(s) == IF s.fuel = 0 THEN Raise(s, "timeout", "step bound")
           ELSE [s EXCEPT !.fuel = @ - 1]

\* the dict's pairs after dict[key] = value
RECURSIVE DictPut(_, _, _)
DictPut(pairs, key, value) ==
    IF pairs = <<>> THEN <<<<key, value>>>>
    ELSE IF PyEq(pairs[1][1], key) THEN <<<<pairs[1][1], value>>>> \o Tail(pairs)
    ELSE <<pairs[1]>> \o DictPut(Tail(pairs), key, value)

\* obj[key] for a dict: [found, value]
RECURSIVE DictGet(_, _)
DictGet(pairs, key) ==
    IF pairs = <<>> THEN [found |-> FALSE, value |-> NoneVal]
    ELSE IF PyEq(pairs[1][1], key) THEN [found |-> TRUE, value |-> pairs[1][2]]
    ELSE DictGet(Tail(pairs), key)

\* the try block of Interpreter.visit_IndexAccess
IndexValue(obj, index) ==
    CASE obj.t = "list" /\ index.t \in {"int", "bool"} ->
            LET i == NumOf(index)
                k == IF i < 0 THEN i + Len(obj.items) ELSE i
            IN IF k >= 0 /\ k < Len(obj.items) THEN Value(obj.items[k + 1])
               ELSE Fails("fault", "Index access error")
      [] obj.t = "str" /\ index.t \in {"int", "bool"} ->
            LET i == NumOf(index)
                k == IF i < 0 THEN i + StrLen(obj.s) ELSE i
            IN IF k >= 0 /\ k < StrLen(obj.s) THEN Value(StrVal(Chars(obj.s)[k + 1]))
               ELSE Fails("fault", "Index access error")
      [] obj.t = "dict" ->
            IF index.t \in {"list", "dict"} THEN Fails("fault", "Index access error")
            ELSE LET r == DictGet(obj.pairs, index) IN
                 IF r.found THEN Value(r.value) ELSE Fails("fault", "Index access error")
      [] OTHER -> Fails("fault", "Index access error")

\* the items a for loop draws from a list or a str
ItemsOf(iterable) ==
    IF iterable.t = "list" THEN iterable.items
    ELSE [i \in 1..StrLen(iterable.s) |-> StrVal(Chars(iterable.s)[i])]

RECURSIVE visit(_, _)
RECURSIVE visit_all(_, _)
RECURSIVE EvalAll(_, _, _)
RECURSIVE while_loop(_, _)
RECURSIVE for_items(_, _, _)
RECURSIVE dict_pairs(_, _, _)

\* `for stmt in body: self.visit(stmt)`
visit_all_PastReturn(statements, s) ==
    IF statements = <<>> \/ s.out \notin {"normal", "return"} THEN s
    ELSE visit_all(Tail(statements), visit(statements[1], [s EXCEPT !.out = "normal"]))

visit_all(statements, s) ==
    IF statements = <<>> \/ s.out # "normal" THEN s
    ELSE visit_all(Tail(statements), visit(statements[1], s))

\* [self.visit(node) for node in nodes]: the state after, the values in val
EvalAll(nodes, s, values) ==
    IF s.out # "normal" THEN s
    ELSE IF nodes = <<>> THEN Returns(s, ListVal(values))
    ELSE LET s1 == visit(nodes[1], s) IN
         IF s1.out # "normal" THEN s1 ELSE EvalAll(Tail(nodes), s1, Append(values, s1.val))

\* the loop of visit_WhileLoop
while_loop_Once(node, s) ==
    LET s1 == visit(node.condition, s) IN
    IF s1.out # "normal" THEN s1
    ELSE IF ~is_truthy(s1.val) THEN Returns(s1, NoneVal)
    ELSE LET s3 == visit_all(node.body, s1) IN
         IF s3.out # "normal" THEN s3 ELSE Returns(s3, NoneVal)

while_loop(node, s) ==
    LET s1 == visit(node.condition, s) IN
    IF s1.out # "normal" THEN s1
    ELSE IF ~is_truthy(s1.val) THEN Returns(s1, NoneVal)
    ELSE LET s2 == Tick(s1) IN
         IF s2.out # "normal" THEN s2
         ELSE LET s3 == visit_all(node.body, s2) IN
              IF s3.out # "normal" THEN s3 ELSE while_loop(node, s3)

\* the loop `for item in iterable` of visit_ForLoop
for_items(node, items, s) ==
    IF items = <<>> \/ s.out # "normal" THEN s
    ELSE LET s1 == Tick(s) IN
         IF s1.out # "normal" THEN s1
         ELSE for_items(node, Tail(items),
                        visit_all(node.body,
                                  [s1 EXCEPT !.envs = Env_define(s1.envs, s1.current_env,
                                                                 node.variable, items[1])]))

\* the loop of visit_DictLiteral
dict_pairs(pairs, s, entries) ==
    IF s.out # "normal" THEN s
    ELSE IF pairs = <<>> THEN Returns(s, DictVal(entries))
    ELSE LET s1 == visit(pairs[1][1], s) IN
         IF s1.out # "normal" THEN s1
         ELSE IF s1.val.t \notin {"int", "float", "str", "bool", "none"}
         THEN Raise(s1, "fault", "Dictionary keys must be hashable")
         ELSE LET s2 == visit(pairs[1][2], s1) IN
              IF s2.out # "normal" THEN s2
              ELSE dict_pairs(Tail(pairs), s2, DictPut(entries, s1.val, s2.val))

\* finally: self.current_env = old_env, of visit_ForLoop and visit_FunctionCall
RestoreEnv_UnlessRaised(s, old_env) ==
    IF s.out \in {"normal", "return"} THEN [s EXCEPT !.current_env = old_env] ELSE s

RestoreEnv(s, old_env) == [s EXCEPT !.current_env = old_env]

\* Environment(self.global_env): the parent of the environment of a call
FuncEnvParent_Caller(s) == s.current_env

FuncEnvParent(s) == GlobalEnv

\* the check of the argument count: len(args) != len(function.parameters)
ArgCountMatches_NotTooMany(function, args) == Len(args) <= Len(function.def.parameters)

ArgCountMatches(function, args) == Len(args) = Len(function.def.parameters)

\* visit_FunctionCall, once the callee and the arguments are known
call_function_InCallerEnv(function, args, s) ==
    IF function.t = "builtin"
    THEN LET r == CallBuiltin(function.name, args) IN
         Outcome(IF function.name = "print" THEN [s EXCEPT !.output = Append(@, args)]
                 ELSE s, r)
    ELSE IF function.t = "function"
    THEN IF ~ArgCountMatches(function, args)
         THEN Raise(s, "fault", "wrong number of arguments")
         ELSE LET s0 == Tick(s)
                  func_env == Len(s0.envs) + 1
                  bound == [n \in {function.def.parameters[i] :
                                      i \in 1..Len(args)} |->
                              args[CHOOSE i \in 1..Len(args) :
                                     /\ function.def.parameters[i] = n
                                     /\ \A j \in (i + 1)..Len(args) :
                                           function.def.parameters[j] # n]]
                  s1 == [s0 EXCEPT !.envs = NewEnvironment(@, FuncEnvParent(s0), bound, "call"),
                                   !.current_env = s0.current_env]
                  s2 == visit_all(function.def.body, s1)
                  s3 == RestoreEnv(s2, s.current_env)
              IN IF s0.out # "normal" THEN s0
                 ELSE IF s3.out = "normal" THEN Returns(s3, NoneVal)
                 ELSE IF s3.out = "return" THEN [s3 EXCEPT !.out = "normal"]
                 ELSE s3
    ELSE Raise(s, "fault", "Cannot call")

call_function(function, args, s) ==
    IF function.t = "builtin"
    THEN LET r == CallBuiltin(function.name, args) IN
         Outcome(IF function.name = "print" THEN [s EXCEPT !.output = Append(@, args)]
                 ELSE s, r)
    ELSE IF function.t = "function"
    THEN IF ~ArgCountMatches(function, args)
         THEN Raise(s, "fault", "wrong number of arguments")
         ELSE LET s0 == Tick(s)
                  func_env == Len(s0.envs) + 1
                  bound == [n \in {function.def.parameters[i] :
                                      i \in 1..Len(args)} |->
                              args[CHOOSE i \in 1..Len(args) :
                                     /\ function.def.parameters[i] = n
                                     /\ \A j \in (i + 1)..Len(args) :
                                           function.def.parameters[j] # n]]
                  s1 == [s0 EXCEPT !.envs = NewEnvironment(@, FuncEnvParent(s0), bound, "call"),
                                   !.current_env = func_env]
                  s2 == visit_all(function.def.body, s1)
                  s3 == RestoreEnv(s2, s.current_env)
              IN IF s0.out # "normal" THEN s0
                 ELSE IF s3.out = "normal" THEN Returns(s3, NoneVal)
                 ELSE IF s3.out = "return" THEN [s3 EXCEPT !.out = "normal"]
                 ELSE s3
    ELSE Raise(s, "fault", "Cannot call")

\* ASTVisitor.visit dispatching to Interpreter.visit_<kind>
visit(node, s) ==
    IF s.out # "normal" THEN s
    ELSE CASE node.kind = "Program" ->
            \* visit_Program returns the result of its last statement
            IF node.statements = <<>> THEN Returns(s, NoneVal)
            ELSE visit_all(node.statements, s)
      [] node.kind = "FunctionDef" ->
            Returns([s EXCEPT !.envs = Env_define(s.envs, s.current_env, node.name,
                                                  FuncVal(node))], NoneVal)
      [] node.kind = "Assignment" ->
            LET s1 == visit(node.value, s) IN
            IF s1.out # "normal" THEN s1
            ELSE [s1 EXCEPT
                    !.envs = IF node.is_declaration
                                \/ ~Env_exists(s1.envs, s1.current_env, node.name)
                             THEN Env_define(s1.envs, s1.current_env, node.name, s1.val)
                             ELSE Env_set(s1.envs, s1.current_env, node.name, s1.val),
                    !.last_assigned = s1.val]
      [] node.kind = "Variable" ->
            IF Env_exists(s.envs, s.current_env, node.name)
            THEN Returns(s, Env_get(s.envs, s.current_env, node.name))
            ELSE Raise(s, "fault", UndefinedVariable(node.name))
      [] node.kind = "BinaryOp" ->
            LET s1 == visit(node.left, s) IN
            IF s1.out # "normal" THEN s1
            ELSE IF node.operator = "and" /\ ~is_truthy(s1.val)
            THEN Returns(s1, BoolVal(FALSE))
            ELSE IF node.operator = "or" /\ is_truthy(s1.val)
            THEN Returns(s1, BoolVal(TRUE))
            ELSE LET s2 == visit(node.right, s1) IN
                 IF s2.out # "normal" THEN s2
                 ELSE IF node.operator \in {"and", "or"}
                 THEN Returns(s2, BoolVal(is_truthy(s2.val)))
                 ELSE Outcome(s2, BinaryValue(node.operator, s1.val, s2.val))
      [] node.kind = "UnaryOp" ->
            LET s1 == visit(node.operand, s) IN
            IF s1.out # "normal" THEN s1
            ELSE Outcome(s1, UnaryValue(node.operator, s1.val))
      [] node.kind = "Literal" -> Returns(s, node.value)
      [] node.kind = "ListLiteral" -> EvalAll(node.elements, s, <<>>)
      [] node.kind = "DictLiteral" -> dict_pairs(node.pairs, s, <<>>)
      [] node.kind = "IfStatement" ->
            LET s1 == visit(node.condition, s)
                s2 == IF is_truthy(s1.val) THEN visit_all(node.then_body, s1)
                      ELSE visit_all(node.else_body, s1)
            IN IF s1.out # "normal" THEN s1
               ELSE IF s2.out # "normal" THEN s2
               ELSE Returns(s2, NoneVal)
      [] node.kind = "WhileLoop" -> while_loop(node, s)
      [] node.kind = "ForLoop" ->
            LET s1 == visit(node.iterable, s)
                s2 == [s1 EXCEPT !.envs = NewEnvironment(@, s1.current_env, <<>>, "loop"),
                                 !.current_env = Len(s1.envs) + 1]
                s3 == for_items(node, ItemsOf(s1.val), s2)
                s4 == RestoreEnv(s3, s1.current_env)
            IN IF s1.out # "normal" THEN s1
               ELSE IF s1.val.t \notin {"list", "str"}
               THEN Raise(s1, "fault", "Cannot iterate")
               ELSE IF s4.out # "normal" THEN s4
               ELSE Returns(s4, NoneVal)
      [] node.kind = "ReturnStatement" ->
            LET s1 == IF node.value # NoNode THEN visit(node.value, s)
                      ELSE Returns(s, NoneVal)
            IN IF s1.out # "normal" THEN s1 ELSE [s1 EXCEPT !.out = "return"]
      [] node.kind = "FunctionCall" ->
            LET s1 == visit(node.function, s)
                s2 == EvalAll(node.arguments, s1, <<>>)
            IN IF s1.out # "normal" THEN s1
               ELSE IF s2.out # "normal" THEN s2
               ELSE call_function(s1.val, s2.val.items, s2)
      [] node.kind = "MemberAccess" ->
            LET s1 == visit(node.object, s) IN
            IF s1.out # "normal" THEN s1
            ELSE IF s1.val.t # "dict"
            THEN Raise(s1, "fault", "Member access not supported")
            ELSE LET r == DictGet(s1.val.pairs, StrVal(node.member)) IN
                 IF r.found THEN Returns(s1, r.value)
                 ELSE Raise(s1, "fault", "Dictionary has no key")
      [] node.kind = "IndexAccess" ->
            LET s1 == visit(node.object, s)
                s2 == visit(node.index, s1)
            IN IF s1.out # "normal" THEN s1
               ELSE IF s2.out # "normal" THEN s2
               ELSE Outcome(s2, IndexValue(s1.val, s2.val))
      [] node.kind = "Annotation" -> Returns(s, NoneVal)

\* Interpreter.execute on a new interpreter: the final state; val is the value
\* execute returns when out is "normal"
execute(root, fuel) ==
    LET s == visit(root, NewInterpreter(fuel)) IN
    IF s.out = "return" THEN [s EXCEPT !.out = "normal"] ELSE s


(***************************************************************************)
(* RunSpec: Interpreter.execute on a new interpreter, one action for each  *)
(* iteration of visit_Program's loop.  The programs are the sequences of   *)
(* at most MaxRunStmts statements of RunPool.                              *)
(***************************************************************************)
\* total = 0
TotalZero == Assignment("total", IntLit(0))

\* for i in [1, 2, 3, 4, 5]: total = total + i
SumLoop5 ==
    ForLoop("i", ListLiteral(<<IntLit(1), IntLit(2), IntLit(3), IntLit(4), IntLit(5)>>),
            <<Assignment("total", Add(Variable("total"), Variable("i")))>>)

\* result = total
ResultTotal == Assignment("result", Variable("total"))

\* x = 10
XTen == Assignment("x", IntLit(10))

\* if x > 5: result = 1  else: result = 2
IfResult == IfStatement(BinaryOp(Variable("x"), ">", IntLit(5)),
                        <<Assignment("result", IntLit(1))>>,
                        <<Assignment("result", IntLit(2))>>)

\* function sum_to(): total = 0; for i in [1, 2, 3, 4, 5]: total = total + i;
\* return total
SumToDef == FunctionDef("sum_to", <<>>,
                        <<TotalZero, SumLoop5, ReturnStatement(Variable("total"))>>, <<>>)

\* result = sum_to()
ResultSumTo == Assignment("result", FunctionCall(Variable("sum_to"), <<>>))

\* function read_y(): return y
ReadYDef == FunctionDef("read_y", <<>>, <<ReturnStatement(Variable("y"))>>, <<>>)

\* function outer(): y = 5; return read_y()
OuterDef ==
    FunctionDef("outer", <<>>,
                <<Assignment("y", IntLit(5)),
                  ReturnStatement(FunctionCall(Variable("read_y"), <<>>))>>, <<>>)

\* result = outer()
ResultOuter == Assignment("result", FunctionCall(Variable("outer"), <<>>))

\* function set_y(): y = 99; return y
SetYDef == FunctionDef("set_y", <<>>,
                       <<Assignment("y", IntLit(99)), ReturnStatement(Variable("y"))>>,
                       <<>>)

\* function keep_y(): y = 5; ignored = set_y(); return y
KeepYDef ==
    FunctionDef("keep_y", <<>>,
                <<Assignment("y", IntLit(5)),
                  Assignment("ignored", FunctionCall(Variable("set_y"), <<>>)),
                  ReturnStatement(Variable("y"))>>, <<>>)

\* result = keep_y()
ResultKeepY == Assignment("result", FunctionCall(Variable("keep_y"), <<>>))

\* print(n)
PrintInt(n) == FunctionCall(Variable("print"), <<IntLit(n)>>)

\* result = 1 / 0,  result = 1 % 0,  result = "a" - 1,  result = -"a"
DivZero == Assignment("result", BinaryOp(IntLit(1), "/", IntLit(0)))
ModZero == Assignment("result", BinaryOp(IntLit(1), "%", IntLit(0)))
StrMinus == Assignment("result", BinaryOp(StrLit("a"), "-", IntLit(1)))
NegStr == Assignment("result", UnaryOp("-", StrLit("a")))

\* return 5
TopReturn == ReturnStatement(IntLit(5))

\* for i in [1, 2, 3]: print(i); return i; print(99)
ReturnLoop ==
    ForLoop("i", ListLiteral(<<IntLit(1), IntLit(2), IntLit(3)>>),
            <<FunctionCall(Variable("print"), <<Variable("i")>>),
              ReturnStatement(Variable("i")), PrintInt(99)>>)

\* function find():
\*     for i in [1, 2, 3]:
\*         print(i)
\*         if i == 2:
\*             return i
\*             print(99)
\*         print(0)
\*     print(99)
\*     return 0
FindDef ==
    FunctionDef("find", <<>>,
        <<ForLoop("i", ListLiteral(<<IntLit(1), IntLit(2), IntLit(3)>>),
                  <<FunctionCall(Variable("print"), <<Variable("i")>>),
                    IfStatement(BinaryOp(Variable("i"), "==", IntLit(2)),
                                <<ReturnStatement(Variable("i")), PrintInt(99)>>, <<>>),
                    PrintInt(0)>>),
          PrintInt(99),
          ReturnStatement(IntLit(0))>>, <<>>)

\* result = find()
ResultFind == Assignment("result", FunctionCall(Variable("find"), <<>>))

\* function count():
\*     n = 0
\*     while n < 5:
\*         n = n + 1
\*         print(n)
\*         if n == 3:
\*             return n
\*     print(99)
\*     return 0
CountDef ==
    FunctionDef("count", <<>>,
        <<Assignment("n", IntLit(0)),
          WhileLoop(BinaryOp(Variable("n"), "<", IntLit(5)),
                    <<Assignment("n", Add(Variable("n"), IntLit(1))),
                      FunctionCall(Variable("print"), <<Variable("n")>>),
                      IfStatement(BinaryOp(Variable("n"), "==", IntLit(3)),
                                  <<ReturnStatement(Variable("n"))>>, <<>>)>>),
          PrintInt(99),
          ReturnStatement(IntLit(0))>>, <<>>)

\* result = count()
ResultCount == Assignment("result", FunctionCall(Variable("count"), <<>>))

\* function stop(): print(1); return; print(99)
StopDef == FunctionDef("stop", <<>>,
                       <<PrintInt(1), ReturnStatement(NoNode), PrintInt(99)>>, <<>>)

\* result = stop()
ResultStop == Assignment("result", FunctionCall(Variable("stop"), <<>>))

\* function add(a, b): print(99); return a + b
AddPrintDef ==
    FunctionDef("add", <<"a", "b">>,
                <<PrintInt(99), ReturnStatement(Add(Variable("a"), Variable("b")))>>, <<>>)

\* result = add(1),  result = add(1, 2, 3)
AddOneArg == Assignment("result", FunctionCall(Variable("add"), <<IntLit(1)>>))
AddThreeArgs ==
    Assignment("result", FunctionCall(Variable("add"), <<IntLit(1), IntLit(2), IntLit(3)>>))

\* function noop(): print(1)
NoopDef == FunctionDef("noop", <<>>, <<PrintInt(1)>>, <<>>)

\* result = noop()
ResultNoop == Assignment("result", FunctionCall(Variable("noop"), <<>>))

\* an assignment node that is not marked as a first binding.  The parser marks
\* every assignment as one (Assignment's default), so these trees are built
\* from the node classes directly
Update(name, value) == [Assignment(name, value) EXCEPT !.is_declaration = FALSE]

\* for i in [1, 2, 3]: total = total + i, the assignment an update
UpdateLoop ==
    ForLoop("i", ListLiteral(<<IntLit(1), IntLit(2), IntLit(3)>>),
            <<Update("total", Add(Variable("total"), Variable("i")))>>)

\* for i in [1, 2, 3]: seen = i, the assignment an update
SeenLoop ==
    ForLoop("i", ListLiteral(<<IntLit(1), IntLit(2), IntLit(3)>>),
            <<Update("seen", Variable("i"))>>)

\* for i in [1, 2, 3]: result = 1 / 0
FaultLoop ==
    ForLoop("i", ListLiteral(<<IntLit(1), IntLit(2), IntLit(3)>>), <<DivZero>>)

\* function crash(): for i in [1, 2, 3]: result = 1 % 0
CrashDef ==
    FunctionDef("crash", <<>>,
                <<ForLoop("i", ListLiteral(<<IntLit(1), IntLit(2), IntLit(3)>>),
                          <<ModZero>>)>>, <<>>)

\* result = crash()
ResultCrash == Assignment("result", FunctionCall(Variable("crash"), <<>>))

\* function bump(): total = total + 1; return total, the assignment an update
BumpDef ==
    FunctionDef("bump", <<>>,
                <<Update("total", Add(Variable("total"), IntLit(1))),
                  ReturnStatement(Variable("total"))>>, <<>>)

\* result = bump()
ResultBump == Assignment("result", FunctionCall(Variable("bump"), <<>>))

\* function make():
\*     function helper():
\*         return 1
\*     total = 5
\*     for i in [1, 2]:
\*         result = i
\*     return helper()
MakeDef ==
    FunctionDef("make", <<>>,
                <<FunctionDef("helper", <<>>, <<ReturnStatement(IntLit(1))>>, <<>>),
                  Assignment("total", IntLit(5)),
                  ForLoop("i", ListLiteral(<<IntLit(1), IntLit(2)>>),
                          <<Assignment("result", Variable("i"))>>),
                  ReturnStatement(FunctionCall(Variable("helper"), <<>>))>>, <<>>)

\* made = make()
MadeMake == Assignment("made", FunctionCall(Variable("make"), <<>>))

\* programs run as a whole, besides the sequences over RunPool
RunExamples ==
    {Program(<<DivZero>>), Program(<<ModZero>>), Program(<<StrMinus>>),
     Program(<<NegStr>>),
     Program(<<ReturnLoop, PrintInt(99)>>),
     Program(<<FindDef, ResultFind, PrintInt(7)>>),
     Program(<<CountDef, ResultCount>>),
     Program(<<StopDef, ResultStop>>),
     Program(<<AddPrintDef, AddOneArg>>),
     Program(<<AddPrintDef, AddThreeArgs, PrintInt(7)>>),
     Program(<<AddDef, AddThreeArgs>>),
     Program(<<NoopDef, ResultNoop>>),
     Program(<<TotalZero, UpdateLoop, ResultTotal>>),
     Program(<<SeenLoop>>),
     Program(<<FaultLoop, PrintInt(7)>>),
     Program(<<CrashDef, ResultCrash, PrintInt(7)>>),
     Program(<<TotalZero, BumpDef, ResultBump>>),
     Program(<<TotalZero, XTen, MakeDef, MadeMake>>)}

RunPool ==
    {TotalZero, SumLoop5, ResultTotal, XTen, IfResult, AddDef, AddCall, SumToDef,
     ResultSumTo, ReadYDef, OuterDef, ResultOuter, SetYDef, KeepYDef, ResultKeepY,
     TopReturn, AddOneArg}

MaxRunStmts == 3

\* loop iterations and calls one top-level statement may make
MaxSteps == 20

RunPrograms ==
    {Program(statements) : statements \in SeqsUpTo(RunPool, MaxRunStmts)}
    \cup RunExamples

RunInit ==
    /\ program \in RunPrograms
    /\ stmt_index = 1
    /\ environments = InitialEnvs
    /\ current_env = GlobalEnv
    /\ result = NoneVal
    /\ run_status = "running"
    /\ last_assigned = NoAssignment
    /\ output = <<>>
    /\ LexIdle
    /\ ParseIdle
    /\ AnalysisIdle
    /\ PipelineIdle

\* result = self.visit(stmt) for the next statement of the program.  A
\* ReturnValue that reaches execute ends it with the value carried; any other
\* exception leaves execute.
RunStatement ==
    /\ run_status = "running"
    /\ stmt_index <= Len(program.statements)
    /\ LET s == visit(program.statements[stmt_index],
                      [envs |-> environments, current_env |-> current_env,
                       out |-> "normal",
                       val |-> NoneVal, fuel |-> MaxSteps,
                       last_assigned |-> last_assigned, output |-> output])
       IN /\ environments' = s.envs
          /\ current_env' = s.current_env
          /\ last_assigned' = s.last_assigned
          /\ output' = s.output
          /\ result' = s.val
          /\ run_status' = CASE s.out = "normal" -> "running"
                             [] s.out = "return" -> "done"
                             [] OTHER -> s.out
    /\ stmt_index' = stmt_index + 1
    /\ UNCHANGED <<program, lexVars, parseVars, anVars, pipeVars>>

\* the loop of visit_Program is over: execute returns result
RunReturn ==
    /\ run_status = "running"
    /\ stmt_index > Len(program.statements)
    /\ run_status' = "done"
    /\ UNCHANGED <<program, stmt_index, environments, current_env, result, last_assigned,
                   output, lexVars, parseVars, anVars, pipeVars>>

RunNext ==
    \/ RunStatement
    \/ RunReturn

RunSpec == RunInit /\ [][RunNext]_vars

(***************************************************************************)
(* Claims about the interpreter                                            *)
(***************************************************************************)
\* the top-level statement that was executed last
Executed(statement) ==
    /\ stmt_index > 1
    /\ program.statements[stmt_index - 1] = statement

GlobalBinds(name, value) ==
    /\ name \in DOMAIN environments[GlobalEnv].bindings
    /\ environments[GlobalEnv].bindings[name] = value

\* C6: a for loop whose body assigns to a name bound in the enclosing scope
\* mutates that binding.  At top level: when `for i in [1, 2, 3, 4, 5]:
\* total = total + i` completes with total bound in the global environment,
\* the global total has grown by 15.  Inside a function body: a call of sum_to,
\* which sets total = 0, runs the same loop and returns total, yields 15.
C6_LoopMutatesOuterBinding ==
    [][/\ ( /\ run_status = "running"
            /\ stmt_index <= Len(program.statements)
            /\ program.statements[stmt_index] = SumLoop5
            /\ "total" \in DOMAIN environments[GlobalEnv].bindings
            /\ run_status' = "running" )
          => environments'[GlobalEnv].bindings["total"]
                = IntVal(environments[GlobalEnv].bindings["total"].i + 15)
       /\ ( /\ run_status = "running"
            /\ stmt_index <= Len(program.statements)
            /\ program.statements[stmt_index] = ResultSumTo
            /\ GlobalBinds("sum_to", FuncVal(SumToDef)) )
          => /\ run_status' = "running"
             /\ result' = IntVal(15)
      ]_vars

\* C7: every environment made for a call of a user function has the global
\* environment as its parent.  A callee does not see its caller's locals:
\* outer binds y and calls read_y, which reads y; y is not a global, so the
\* call of outer ends in RuntimeError "Undefined variable: y".  A callee's
\* assignment does not touch its caller's binding: keep_y binds y = 5, calls
\* set_y (which assigns y = 99) and returns its own y, 5; no global y appears.
\* The callee is the binding of its name when the call is made, wherever the
\* definitions stand in the program.
C7_CallEnvironmentIsGlobal ==
    /\ \A e \in 1..Len(environments) :
          environments[e].made_by = "call" => environments[e].parent = GlobalEnv
    /\ ( /\ Executed(ResultOuter)
         /\ GlobalBinds("outer", FuncVal(OuterDef))
         /\ GlobalBinds("read_y", FuncVal(ReadYDef)) )
       => /\ run_status = "fault"
          /\ result = StrVal(UndefinedVariable("y"))
    /\ ( /\ Executed(ResultKeepY)
         /\ GlobalBinds("keep_y", FuncVal(KeepYDef))
         /\ GlobalBinds("set_y", FuncVal(SetYDef)) )
       => /\ run_status \in {"running", "done"}
          /\ result = IntVal(5)
          /\ GlobalBinds("result", IntVal(5))
          /\ "y" \notin DOMAIN environments[GlobalEnv].bindings

\* both scenarios of C7 in one run: the call of keep_y (defined before set_y)
\* has returned 5 and made environments for two calls
C7_Witness ==
    /\ program = Program(<<KeepYDef, SetYDef, ResultKeepY>>)
    /\ run_status = "done"
    /\ result = IntVal(5)
    /\ Cardinality({e \in 1..Len(environments) : environments[e].made_by = "call"}) = 2

\* the call of outer has ended in the fault
C7_WitnessFault ==
    /\ program = Program(<<ReadYDef, OuterDef, ResultOuter>>)
    /\ run_status = "fault"

\* the last top-level statement is an assignment, or an if/else whose
\* branches end in assignments
EndsInAssignment ==
    /\ program.statements # <<>>
    /\ LET last == Last(program.statements) IN
       \/ last.kind = "Assignment"
       \/ /\ last.kind = "IfStatement"
          /\ last.then_body # <<>> /\ Last(last.then_body).kind = "Assignment"
          /\ last.else_body # <<>> /\ Last(last.else_body).kind = "Assignment"

\* C9: when execute returns from a program whose last top-level statement is
\* an assignment, or an if/else whose taken branch ends in an assignment, the
\* value returned is the value of the last assignment executed.
C9_ReturnsLastAssignment ==
    (run_status = "done" /\ EndsInAssignment) => result = last_assigned

\* the part of C9 about a program that ends in a top-level assignment
C9_TopLevelAssignment ==
    ( /\ run_status = "done"
      /\ program.statements # <<>>
      /\ Last(program.statements).kind = "Assignment" )
    => result = last_assigned

(***************************************************************************)
(* Spec: the command-line front end (src/ethicalang/cli/main.py).          *)
(* compile_program runs the stages one after the other, then main exits or *)
(* hands the tree to run_program.  Tokenizing and parsing are taken by     *)
(* their outcome: the source either makes the stage raise or yields the    *)
(* tree input.ast.  The trees are the programs of at most MaxPipelineStmts *)
(* statements of PipelinePool.                                             *)
(***************************************************************************)
PipelinePool == {AddDef, AddCall, SecretAssign, FaceCall, CountDown, SumLoop, DenseAssign}

MaxPipelineStmts == 2

PipelinePrograms ==
    {Program(statements) : statements \in SeqsUpTo(PipelinePool, MaxPipelineStmts)}
    \cup AnalysisExamples

Inputs ==
    {[lexes |-> FALSE, parses |-> FALSE, ast |-> NoNode],
     [lexes |-> TRUE, parses |-> FALSE, ast |-> NoNode]}
    \cup {[lexes |-> TRUE, parses |-> TRUE, ast |-> p] : p \in PipelinePrograms}

\* the config main builds from the command line: the strict flags are always
\* True; the command `analyze` is handled as `check` is
Configs ==
    [command : {"run", "check"},
     check_energy : BOOLEAN, check_ethics : BOOLEAN,
     check_readability : BOOLEAN, check_cleverness : BOOLEAN,
     energy_budget : Budgets, min_readability : MinScores,
     strict_ethics : {TRUE}, strict_cleverness : {TRUE}]

PassOrder == <<"energy", "ethics", "readability", "cleverness">>

\* the stage compile_program goes to after the stage of a pass
AfterPass_FailFast(stage, errs) ==
    IF errs # <<>> THEN "return"
    ELSE CASE stage = "energy" -> "ethics"
           [] stage = "ethics" -> "readability"
           [] stage = "readability" -> "cleverness"
           [] stage = "cleverness" -> "return"

AfterPass(stage, errs) ==
    CASE stage = "energy" -> "ethics"
      [] stage = "ethics" -> "readability"
      [] stage = "readability" -> "cleverness"
      [] stage = "cleverness" -> "return"

\* the tests that guard errors.append in compile_program
EnergyFailed_Never(energy_results) == FALSE

EnergyFailed(energy_results) == ~energy_results.within_budget

NotPassed(pass_results) == ~pass_results.passed

Init ==
    /\ config \in Configs
    /\ input \in Inputs
    /\ pc = "lex"
    /\ ast = NoNode
    /\ errors = <<>>
    /\ passes_run = <<>>
    /\ results = [p \in {"energy", "ethics", "readability", "cleverness"} |-> NoReport]
    /\ started = FALSE
    /\ exit_code = -1
    /\ run_result = NoneVal
    /\ LexIdle
    /\ ParseIdle
    /\ AnalysisIdle
    /\ RunIdle

\* Stage 1: lexer.tokenize(); an exception returns None, [str(e)]
Tokenize ==
    /\ pc = "lex"
    /\ IF input.lexes
       THEN pc' = "parse" /\ UNCHANGED errors
       ELSE pc' = "main" /\ errors' = <<"Lexical analysis failed">>
    /\ UNCHANGED <<config, input, ast, passes_run, results, started, exit_code,
                   run_result, lexVars, parseVars, anVars, runVars>>

\* Stage 2: parser.parse(); an exception returns None, [str(e)]
Parse ==
    /\ pc = "parse"
    /\ IF input.parses
       THEN pc' = "energy" /\ ast' = input.ast /\ UNCHANGED errors
       ELSE pc' = "main" /\ errors' = <<"Parsing failed">> /\ UNCHANGED ast
    /\ UNCHANGED <<config, input, passes_run, results, started, exit_code, run_result,
                   lexVars, parseVars, anVars, runVars>>

\* the stage of one pass: skipped if the pass is not enabled, else the pass
\* runs and its failure is appended to errors
PassStage(stage, enabled, pass_results, failed, message) ==
    /\ pc = stage
    /\ IF enabled
       THEN /\ results' = [results EXCEPT ![stage] = pass_results]
            /\ passes_run' = Append(passes_run, stage)
            /\ errors' = IF failed THEN Append(errors, message) ELSE errors
       ELSE UNCHANGED <<results, passes_run, errors>>
    /\ pc' = AfterPass(stage, errors')
    /\ UNCHANGED <<config, input, ast, started, exit_code, run_result,
                   lexVars, parseVars, anVars, runVars>>

EnergyAnalysis ==
    LET energy_results == EnergyAnalyze(ast, config.energy_budget) IN
    PassStage("energy", config.check_energy, energy_results,
              EnergyFailed(energy_results), "Energy budget exceeded")

EthicsCheck ==
    LET ethics_results == EthicsAnalyze(ast, config.strict_ethics) IN
    PassStage("ethics", config.check_ethics, ethics_results,
              NotPassed(ethics_results), "Ethics check failed")

ReadabilityScoring ==
    LET readability_results == ReadabilityAnalyze(ast, config.min_readability) IN
    PassStage("readability", config.check_readability, readability_results,
              NotPassed(readability_results), "Readability check failed")

ClevernessDetection ==
    LET cleverness_results == ClevernessAnalyze(ast, config.strict_cleverness) IN
    PassStage("cleverness", config.check_cleverness, cleverness_results,
              NotPassed(cleverness_results), "Cleverness check failed")

\* the end of compile_program: None, errors or ast, []
CompileReturn ==
    /\ pc = "return"
    /\ ast' = IF errors # <<>> THEN NoNode ELSE ast
    /\ pc' = "main"
    /\ UNCHANGED <<config, input, errors, passes_run, results, started, exit_code,
                   run_result, lexVars, parseVars, anVars, runVars>>

\* main: `if errors: return 1`
MainRejects ==
    /\ pc = "main"
    /\ errors # <<>>
    /\ exit_code' = 1
    /\ pc' = "exit"
    /\ UNCHANGED <<config, input, ast, errors, passes_run, results, started, run_result,
                   lexVars, parseVars, anVars, runVars>>

\* one more iteration of a while loop from state s: the condition is true and
\* the body completes
Iterates(node, s) ==
    LET s1 == visit(node.condition, s) IN
    s1.out = "normal" /\ is_truthy(s1.val) /\ visit_all(node.body, s1).out = "normal"

Iteration(node, s) == visit_all(node.body, visit(node.condition, s))

\* what the next iteration depends on
Store(s) == <<s.envs, s.current_env>>

\* a while loop that does not end from state s: its second iteration leaves
\* the environments as it found them, so every later iteration does what the
\* second did (visit_WhileLoop has no other exit than the condition, an
\* exception or a return)
LoopsForever(node, s) ==
    /\ node.kind = "WhileLoop"
    /\ Iterates(node, s)
    /\ LET first == [Iteration(node, s) EXCEPT !.fuel = s.fuel] IN
       /\ Iterates(node, first)
       /\ Store(Iteration(node, first)) = Store(first)

RECURSIVE HangsIn(_, _)
\* execution reaches a top-level statement that is such a loop
HangsIn(statements, s) ==
    IF statements = <<>> \/ s.out # "normal" THEN FALSE
    ELSE \/ LoopsForever(statements[1], s)
         \/ HangsIn(Tail(statements), visit(statements[1], s))

\* Interpreter.execute does not return: the tree has a loop that does not end,
\* and the walk is still in it when the step bound is used up
Diverges(root) ==
    /\ HangsIn(root.statements, NewInterpreter(MaxSteps))
    /\ execute(root, MaxSteps).out = "timeout"

\* main: run_program(ast, config), which makes an Interpreter and executes
\* the tree; any exception gives exit code 1
RunProgram ==
    /\ pc = "main"
    /\ errors = <<>>
    /\ config.command = "run"
    /\ ~Diverges(ast)
    /\ LET s == execute(ast, MaxSteps) IN
       /\ started' = TRUE
       /\ run_result' = s.val
       /\ exit_code' \in CASE s.out = "normal" -> {0}
                            [] s.out = "timeout" -> {0, 1}  \* the run is longer than MaxSteps
                            [] OTHER -> {1}
    /\ pc' = "exit"
    /\ UNCHANGED <<config, input, ast, errors, passes_run, results,
                   lexVars, parseVars, anVars, runVars>>

\* main: run_program(ast, config) on a tree whose execution does not end:
\* main stays in interpreter.execute
RunForever ==
    /\ pc = "main"
    /\ errors = <<>>
    /\ config.command = "run"
    /\ Diverges(ast)
    /\ started' = TRUE
    /\ pc' = "execute"
    /\ UNCHANGED <<config, input, ast, errors, passes_run, results, exit_code, run_result,
                   lexVars, parseVars, anVars, runVars>>

\* main: the program is valid and is not run
CheckOnly ==
    /\ pc = "main"
    /\ errors = <<>>
    /\ config.command # "run"
    /\ exit_code' = 0
    /\ pc' = "exit"
    /\ UNCHANGED <<config, input, ast, errors, passes_run, results, started, run_result,
                   lexVars, parseVars, anVars, runVars>>

Next ==
    \/ Tokenize
    \/ Parse
    \/ EnergyAnalysis
    \/ EthicsCheck
    \/ ReadabilityScoring
    \/ ClevernessDetection
    \/ CompileReturn
    \/ MainRejects
    \/ RunProgram
    \/ RunForever
    \/ CheckOnly

Spec == Init /\ [][Next]_vars

(***************************************************************************)
(* Claims about the pipeline                                               *)
(***************************************************************************)
PassEnabled(pass) ==
    CASE pass = "energy" -> config.check_energy
      [] pass = "ethics" -> config.check_ethics
      [] pass = "readability" -> config.check_readability
      [] pass = "cleverness" -> config.check_cleverness

\* what the pass, run on the parsed tree under config, reports: blocking or not
PassBlocks(pass) ==
    CASE pass = "energy" -> ~EnergyAnalyze(input.ast, config.energy_budget).within_budget
      [] pass = "ethics" -> ~EthicsAnalyze(input.ast, config.strict_ethics).passed
      [] pass = "readability" ->
            ~ReadabilityAnalyze(input.ast, config.min_readability).passed
      [] pass = "cleverness" ->
            ~ClevernessAnalyze(input.ast, config.strict_cleverness).passed

PassMessage(pass) ==
    CASE pass = "energy" -> "Energy budget exceeded"
      [] pass = "ethics" -> "Ethics check failed"
      [] pass = "readability" -> "Readability check failed"
      [] pass = "cleverness" -> "Cleverness check failed"

PassNames == {PassOrder[i] : i \in 1..Len(PassOrder)}

NoEnabledPassBlocks == \A pass \in PassNames : PassEnabled(pass) => ~PassBlocks(pass)

\* C1: the interpreter is started only if tokenizing and parsing succeeded
\* and no enabled pass reported a blocking result; and a run that has ended
\* after a successful parse started the interpreter exactly if no enabled pass
\* blocked, so a disabled pass never blocks and a failing enabled one always
\* does.
C1_RunOnlyIfAllPassed ==
    /\ started => /\ input.lexes /\ input.parses
                  /\ config.command = "run"
                  /\ NoEnabledPassBlocks
    /\ (pc = "exit" /\ config.command = "run" /\ input.lexes /\ input.parses)
       => (started <=> NoEnabledPassBlocks)
    /\ (pc = "exit" /\ ~(input.lexes /\ input.parses)) => ~started /\ exit_code = 1

\* the interpreter ran although a pass that is switched off would have blocked
C1_Witness ==
    /\ pc = "exit"
    /\ started
    /\ \E pass \in PassNames : ~PassEnabled(pass) /\ PassBlocks(pass)

\* an enabled pass blocked a run
C1_WitnessBlocked ==
    /\ pc = "exit"
    /\ config.command = "run"
    /\ ~started
    /\ input.parses
    /\ \E pass \in PassNames : PassEnabled(pass) /\ PassBlocks(pass)

EnabledPasses == SelectSeq(PassOrder, PassEnabled)

BlockingEnabled(pass) == PassEnabled(pass) /\ PassBlocks(pass)

FailedPasses == SelectSeq(PassOrder, BlockingEnabled)

IsPrefix(s, t) == Len(s) <= Len(t) /\ SubSeq(t, 1, Len(s)) = s

\* C2: after a successful parse the passes that run are the enabled ones, in
\* the order energy, ethics, readability, cleverness, whatever the earlier
\* ones reported; when compile_program returns, every enabled pass has run
\* and the failure list has one entry for each enabled pass that failed, in
\* that order.  A tokenize or parse fault ends the pipeline with that one
\* failure and no pass run.
C2_AllEnabledPassesRun ==
    /\ IsPrefix(passes_run, EnabledPasses)
    /\ (input.parses /\ pc \in {"return", "main", "exit"})
       => /\ passes_run = EnabledPasses
          /\ Len(errors) = Len(FailedPasses)
          /\ \A i \in 1..Len(errors) :
                errors[i] = PassMessage(FailedPasses[i])
    /\ (~input.parses /\ pc \in {"main", "exit"})
       => passes_run = <<>> /\ Len(errors) = 1

\* all four passes ran and three of them failed
C2_Witness ==
    /\ pc = "exit"
    /\ passes_run = PassOrder
    /\ Len(errors) = 3
    /\ errors[1] # "Energy budget exceeded"

AddProgram == Program(<<AddDef, AddCall>>)

DefaultConfig ==
    /\ config.check_energy /\ config.check_ethics
    /\ config.check_readability /\ config.check_cleverness
    /\ config.energy_budget = DefaultBudget
    /\ config.min_readability = DefaultMinScore

\* C8: under the default configuration the program `function add(a, b):
\* return a + b; result = add(3, 4)` passes the four passes with no violation
\* and no issue (its estimated cost is within the budget of 1000, its
\* readability score is not below 70), and its execution returns 7.
C8_AddProgramPassesAndRuns ==
    (DefaultConfig /\ input.parses /\ input.ast = AddProgram)
    => /\ errors = <<>>
       /\ results["energy"] # NoReport =>
             /\ results["energy"].within_budget
             /\ results["energy"].violations = <<>>
             /\ results["energy"].total_cost <= DefaultBudget
       /\ results["ethics"] # NoReport =>
             results["ethics"].passed /\ results["ethics"].violations = <<>>
       /\ results["readability"] # NoReport =>
             /\ results["readability"].passed
             /\ results["readability"].issues = <<>>
             /\ results["readability"].overall_score >= 10 * DefaultMinScore
       /\ results["cleverness"] # NoReport =>
             results["cleverness"].passed /\ results["cleverness"].violations = <<>>
       /\ (pc = "exit" /\ config.command = "run")
          => started /\ exit_code = 0 /\ run_result = IntVal(7)

\* the add program has gone through the four passes and has been run
C8_Witness ==
    /\ DefaultConfig
    /\ input.ast = AddProgram
    /\ pc = "exit"
    /\ passes_run = PassOrder
    /\ started
    /\ run_result = IntVal(7)

(***************************************************************************)
(* Claims about the Energy pass                                            *)
(***************************************************************************)
RECURSIVE SumCosts(_)
SumCosts(costs) == IF costs = <<>> THEN 0 ELSE costs[1] + SumCosts(Tail(costs))

\* the walk analyze makes for the report in energy_report
EnergyWalk == EnVisit(tree, EnergyInit(energy_report.budget))

BudgetExceededIn(violations) ==
    {i \in 1..Len(violations) : violations[i].type = "budget_exceeded"}

\* C11: the total of the Energy report is the sum of the costs added, and
\* after every addition but the last the running total was within the budget:
\* the first addition that takes the total over the budget is the last one of
\* the walk, which is then a prefix of the walk under any larger budget.  If
\* the total is over the budget, within_budget is false and the last violation
\* of the report is the one budget_exceeded violation, citing the reported
\* total; otherwise within_budget is true and there is no such violation.
C11_BudgetCheckedAfterEachAddition ==
    energy_report # NoReport =>
       LET added == EnergyWalk.added
           total == energy_report.total_cost
           budget == energy_report.budget
           violations == energy_report.violations
       IN /\ total = SumCosts(added)
          /\ \A k \in 0..(Len(added) - 1) : SumCosts(SubSeq(added, 1, k)) <= budget
          /\ \A b \in Budgets :
                b >= budget => IsPrefix(added, EnVisit(tree, EnergyInit(b)).added)
          /\ energy_report.within_budget = (total <= budget)
          /\ IF total > budget
             THEN /\ BudgetExceededIn(violations) = {Len(violations)}
                  /\ violations[Len(violations)].detail = total
             ELSE BudgetExceededIn(violations) = {}

\* a walk that the budget cut short: under the default budget the same tree
\* gets more additions
C11_Witness ==
    /\ energy_report # NoReport
    /\ energy_report.budget = TightBudget
    /\ ~energy_report.within_budget
    /\ Len(EnergyWalk.added) < Len(EnVisit(tree, EnergyInit(DefaultBudget)).added)

\* the total the Energy pass gives a block that stands alone at top level
BlockCost(block) == EnergyAnalyze(Program(block), DefaultBudget).total_cost

\* the cost of evaluating an expression once
ExpressionCost(expression) == EnVisit(expression, EnergyInit(DefaultBudget)).total_cost

\* C12: when the tree is one for loop over a literal sequence of N elements
\* around a block that costs C on its own, and the budget is not exceeded,
\* the block's contribution to the total (the total less the cost of the
\* iterable expression) is C times N times 2^(nesting levels added): C * N by
\* the multiplier N * 2^(depth - 1) of a loop at depth 1, or C * N * 2 if the
\* new loop counts as one level.
C12_LoopMultipliesBlockCost ==
    ( /\ energy_report # NoReport
      /\ energy_report.within_budget
      /\ Len(tree.statements) = 1
      /\ tree.statements[1].kind = "ForLoop"
      /\ tree.statements[1].iterable.kind = "ListLiteral" )
    => LET loop == tree.statements[1]
           N == Len(loop.iterable.elements)
           C == BlockCost(loop.body)
           contribution == energy_report.total_cost - ExpressionCost(loop.iterable)
       IN contribution \in {C * N, C * N * 2}

(***************************************************************************)
(* Claims about the programs of the test suite                             *)
(***************************************************************************)
\* C13: a program of three nested for loops over iterables that are not
\* literal sequences, around a non-empty body, is over the energy budget:
\* whenever the Energy pass is enabled its report has within_budget false and
\* at least one violation, the estimated cost is above 1000 under the default
\* budget of 1000, compile_program reports "Energy budget exceeded", and the
\* program is never executed.
C13_TripleLoopBlocked ==
    (input.parses /\ input.ast \in TripleLoopPrograms /\ config.check_energy)
    => /\ results["energy"] # NoReport =>
             /\ ~results["energy"].within_budget
             /\ results["energy"].violations # <<>>
             /\ results["energy"].total_cost > results["energy"].budget
             /\ config.energy_budget = DefaultBudget =>
                   results["energy"].total_cost > DefaultBudget
       /\ pc \in {"ethics", "readability", "cleverness", "return", "main", "exit"} =>
             /\ results["energy"] # NoReport
             /\ errors # <<>> /\ errors[1] = "Energy budget exceeded"
       /\ ~started
       /\ pc = "exit" => exit_code = 1

\* the program of test_bad_energy_fails was rejected under the default budget
C13_Witness ==
    /\ input.ast = Program(<<ExpensiveDef(50), ExpensiveCall>>)
    /\ config.command = "run"
    /\ config.check_energy
    /\ config.energy_budget = DefaultBudget
    /\ pc = "exit"
    /\ results["energy"].total_cost > DefaultBudget
    /\ ~started

ConsentAnnotation == Annotation("requires_user_consent")

\* C14: in collect-all mode the Ethics report of `function collect_location():
\* return none` lists exactly one violation, of type
\* missing_consent_annotation, and does not pass; the report of the same
\* function under @requires_user_consent lists none and passes.
C14_ConsentAnnotationRequired ==
    Ran(<<"ethics", FALSE>>) =>
       LET report == reports[<<"ethics", FALSE>>] IN
       /\ tree = Program(<<CollectNone(<<>>)>>) =>
             /\ Len(report.violations) = 1
             /\ report.violations[1].type = "missing_consent_annotation"
             /\ ~report.passed
       /\ tree = Program(<<CollectNone(<<ConsentAnnotation>>)>>) =>
             /\ report.violations = <<>>
             /\ report.passed

\* the collect-all report of the function without the annotation
C14_Witness ==
    /\ tree = Program(<<CollectNone(<<>>)>>)
    /\ Ran(<<"ethics", FALSE>>)
    /\ Len(reports[<<"ethics", FALSE>>].violations) = 1

\* the collect-all report of the annotated function
C14_WitnessAnnotated ==
    /\ tree = Program(<<CollectNone(<<ConsentAnnotation>>)>>)
    /\ Ran(<<"ethics", FALSE>>)
    /\ reports[<<"ethics", FALSE>>].passed

\* C15: the program that defines collect_location under
\* @requires_user_consent and then assigns result = collect_location() at top
\* level has no ethics violation in collect-all mode; under the default
\* configuration it passes the four passes, compile_program reports no error,
\* and a run executes it and returns none.
C15_AnnotatedProgramRuns ==
    (input.parses /\ input.ast = ConsentProgram /\ DefaultConfig)
    => /\ EthicsAnalyze(input.ast, FALSE).violations = <<>>
       /\ errors = <<>>
       /\ results["energy"] # NoReport => results["energy"].within_budget
       /\ results["ethics"] # NoReport => results["ethics"].passed
       /\ results["readability"] # NoReport => results["readability"].passed
       /\ results["cleverness"] # NoReport => results["cleverness"].passed
       /\ (pc = "exit" /\ config.command = "run")
          => started /\ exit_code = 0 /\ run_result = NoneVal

\* C16: at minimum score 70 the Readability report of function f(x) with the
\* five assignments a = x + 1, b = a * 2, c = b - 3, d = c / 4, e = d + 5 and
\* `return e` has an overall score below 70 and does not pass.
C16_PoorNamesFail ==
    ( /\ tree = Program(<<PoorNamesDef>>)
      /\ readability_report # NoReport
      /\ readability_report.min_score = DefaultMinScore )
    => /\ readability_report.overall_score < 10 * DefaultMinScore
       /\ ~readability_report.passed

(***************************************************************************)
(* ReturnSpec: the Cleverness pass applied to functions that return an     *)
(* expression.  The expressions are a variable or a sequence literal under *)
(* at most MaxWrap operators, calls and accesses, and the expression of    *)
(* tests/test_analyzers.py test_cleverness_complex_expression_fails.       *)
(***************************************************************************)
Wrappers == {"binary_left", "binary_right", "unary", "call", "member", "index"}

MaxWrap == 4

\* the expression that has `inner` as the given operand
Wrap(wrapper, inner) ==
    CASE wrapper = "binary_left" -> BinaryOp(inner, "+", Variable("y"))
      [] wrapper = "binary_right" -> BinaryOp(Variable("y"), "*", inner)
      [] wrapper = "unary" -> UnaryOp("-", inner)
      [] wrapper = "call" -> FunctionCall(Variable("add"), <<Variable("z"), inner>>)
      [] wrapper = "member" -> MemberAccess(inner, "value")
      [] wrapper = "index" -> IndexAccess(inner, Variable("z"))

RECURSIVE Wrapped(_, _)
Wrapped(inner, wrappers) ==
    IF wrappers = <<>> THEN inner
    ELSE Wrapped(Wrap(wrappers[1], inner), Tail(wrappers))

\* ((x + y) * (z - x) + (y * z)) / ((x + z) - (y - x))
CalculateExpression ==
    BinaryOp(BinaryOp(BinaryOp(Add(Variable("x"), Variable("y")), "*",
                               BinaryOp(Variable("z"), "-", Variable("x"))),
                      "+",
                      BinaryOp(Variable("y"), "*", Variable("z"))),
             "/",
             BinaryOp(Add(Variable("x"), Variable("z")), "-",
                      BinaryOp(Variable("y"), "-", Variable("x"))))

ReturnExpressions ==
    {Wrapped(inner, wrappers) :
        inner \in {Variable("x"), ListLiteral(<<Variable("x")>>)},
        wrappers \in SeqsUpTo(Wrappers, MaxWrap)}
    \cup {CalculateExpression}

\* function calculate(x, y, z): [result = x;] return <expression>
ReturnPrograms ==
    {Program(<<FunctionDef("calculate", <<"x", "y", "z">>,
                           leading \o <<ReturnStatement(expression)>>, <<>>)>>) :
        leading \in {<<>>, <<Assignment("result", Variable("x"))>>},
        expression \in ReturnExpressions}

ReturnInit ==
    /\ tree \in ReturnPrograms
    /\ reports = [key \in ReportKeys |-> NoReport]
    /\ energy_report = NoReport
    /\ readability_report = NoReport
    /\ analyzer = [pass |-> "none"]
    /\ replies = <<>>
    /\ LexIdle
    /\ ParseIdle
    /\ RunIdle
    /\ PipelineIdle

ReturnSpec == ReturnInit /\ [][AnalyzeCleverness]_vars

\* the depth of an expression: a literal or a variable 1, a binary or unary
\* operation 1 + the largest depth of its operands, a call 2 + the largest
\* depth of its arguments, a member or index access 1 + the depth of its
\* object, a collection literal 2
RECURSIVE DepthOf(_)
RECURSIVE LargestDepth(_)
LargestDepth(expressions) ==
    IF expressions = <<>> THEN 0
    ELSE LET first == DepthOf(expressions[1])
             rest == LargestDepth(Tail(expressions))
         IN IF first > rest THEN first ELSE rest

DepthOf(expression) ==
    CASE expression.kind \in {"Literal", "Variable"} -> 1
      [] expression.kind = "BinaryOp" ->
            1 + LargestDepth(<<expression.left, expression.right>>)
      [] expression.kind = "UnaryOp" -> 1 + DepthOf(expression.operand)
      [] expression.kind = "FunctionCall" -> 2 + LargestDepth(expression.arguments)
      [] expression.kind \in {"MemberAccess", "IndexAccess"} -> 1 + DepthOf(expression.object)
      [] expression.kind \in {"ListLiteral", "DictLiteral"} -> 2

\* the expression the function of the tree returns
Returned == Last(tree.statements[1].body).value

\* C17: a function whose return expression has depth greater than 4 fails the
\* Cleverness pass, in either mode: the report does not pass and lists at
\* least one violation; in collect-all mode complex_return is among them.  The
\* function whose sole statement is
\* return ((x + y) * (z - x) + (y * z)) / ((x + z) - (y - x)) is one of them.
C17_DeepReturnFails ==
    /\ DepthOf(CalculateExpression) > MAX_EXPRESSION_DEPTH
    /\ \A key \in {<<"cleverness", TRUE>>, <<"cleverness", FALSE>>} :
          (Ran(key) /\ DepthOf(Returned) > MAX_EXPRESSION_DEPTH)
          => /\ ~reports[key].passed
             /\ reports[key].violations # <<>>
             /\ ~key[2] => \E i \in 1..Len(reports[key].violations) :
                               reports[key].violations[i].type = "complex_return"

\* the collect-all report of the function of the test
C17_Witness ==
    /\ Returned = CalculateExpression
    /\ Len(tree.statements[1].body) = 1
    /\ Ran(<<"cleverness", FALSE>>)
    /\ ~reports[<<"cleverness", FALSE>>].passed
    /\ Len(reports[<<"cleverness", FALSE>>].violations) = 2

(***************************************************************************)
(* Claims about faults, return and calls in the interpreter                *)
(***************************************************************************)
\* C18: execute returns a value or fails with the interpreter's RuntimeError
\* and with nothing else; a division by zero, a modulo by zero and an operator
\* applied to operands of kinds it does not support all fail with that
\* RuntimeError.
C18_OnlyExecutionFaults ==
    /\ run_status # "crash"
    /\ \A statement \in {DivZero, ModZero, StrMinus, NegStr} :
          Executed(statement) => run_status = "fault"

\* the part of C18 about division: it fails with RuntimeError
C18_DivisionByZeroFaults ==
    Executed(DivZero) => run_status = "fault" /\ result = StrVal("Division by zero")

\* the last n entries of the output
OutputTail(n) == IF Len(output) < n THEN <<>>
                 ELSE SubSeq(output, Len(output) - n + 1, Len(output))

Printed(numbers) == [i \in 1..Len(numbers) |-> <<IntVal(numbers[i])>>]

\* print(99) stands only where a return has ended the body or the run before
Unreachable == <<IntVal(99)>>

\* the top-level statements that execute a return outside any function
ReturnsAtTop(statement) == statement.kind = "ReturnStatement" \/ statement = ReturnLoop

\* C19: a return ends the call it is executed in at once, at any depth of
\* if, while and for: no later statement of the body and no further iteration
\* runs (nothing after a return is printed), the call has the returned value
\* (find returns 2 out of an if in a for, count returns 3 out of an if in a
\* while, stop returns none by a bare return) and the environment of the
\* caller is the active one again.  A return outside any function ends the
\* run: it is the last top-level statement executed and execute returns its
\* value.
C19_ReturnEndsCall ==
    /\ \A i \in 1..Len(output) : output[i] # Unreachable
    /\ run_status \in {"running", "done"} => current_env = GlobalEnv
    /\ \A k \in 1..(stmt_index - 2) : ~ReturnsAtTop(program.statements[k])
    /\ (stmt_index > 1 /\ ReturnsAtTop(program.statements[stmt_index - 1]))
       => run_status = "done"
    /\ Executed(TopReturn) => result = IntVal(5)
    /\ Executed(ReturnLoop) => result = IntVal(1) /\ OutputTail(1) = Printed(<<1>>)
    /\ (Executed(ResultFind) /\ GlobalBinds("find", FuncVal(FindDef)))
       => /\ run_status \in {"running", "done"}
          /\ result = IntVal(2)
          /\ OutputTail(3) = Printed(<<1, 0, 2>>)
    /\ (Executed(ResultCount) /\ GlobalBinds("count", FuncVal(CountDef)))
       => /\ run_status \in {"running", "done"}
          /\ result = IntVal(3)
          /\ OutputTail(3) = Printed(<<1, 2, 3>>)
    /\ (Executed(ResultStop) /\ GlobalBinds("stop", FuncVal(StopDef)))
       => /\ run_status \in {"running", "done"}
          /\ result = NoneVal
          /\ OutputTail(1) = Printed(<<1>>)

\* find has returned from inside its loop and the run went on at top level
C19_Witness ==
    /\ program = Program(<<FindDef, ResultFind, PrintInt(7)>>)
    /\ run_status = "done"
    /\ output = Printed(<<1, 0, 2, 7>>)
    /\ GlobalBinds("result", IntVal(2))

\* a return at top level has ended a run that had statements left
C19_WitnessTop ==
    /\ run_status = "done"
    /\ Executed(TopReturn)
    /\ stmt_index <= Len(program.statements)

\* the statement about to be executed
AtStatement(statement) ==
    /\ run_status = "running"
    /\ stmt_index <= Len(program.statements)
    /\ program.statements[stmt_index] = statement

\* C20: a call of a user-defined function with too few or too many arguments
\* fails with RuntimeError and changes nothing else: no environment is made,
\* the active environment stays, nothing of the body runs.  A call with the
\* right number of arguments whose body ends without a return has the value
\* none.
C20_ArgumentCountChecked ==
    [][/\ \A call \in {AddOneArg, AddThreeArgs} :
             ( /\ AtStatement(call)
               /\ \E def \in {AddDef, AddPrintDef} : GlobalBinds("add", FuncVal(def)) )
             => /\ run_status' = "fault"
                /\ result' = StrVal("wrong number of arguments")
                /\ environments' = environments
                /\ current_env' = current_env
                /\ output' = output
       /\ (AtStatement(ResultNoop) /\ GlobalBinds("noop", FuncVal(NoopDef)))
          => /\ run_status' = "running"
             /\ result' = NoneVal
             /\ output' = Append(output, <<IntVal(1)>>)
             /\ current_env' = current_env
      ]_vars

\* add(1) has failed on the count of its arguments
C20_Witness ==
    /\ Executed(AddOneArg)
    /\ \E def \in {AddDef, AddPrintDef} : GlobalBinds("add", FuncVal(def))
    /\ run_status = "fault"
    /\ result = StrVal("wrong number of arguments")

\* noop() has run to the end of its body
C20_WitnessNoReturn ==
    /\ Executed(ResultNoop)
    /\ GlobalBinds("noop", FuncVal(NoopDef))
    /\ GlobalBinds("result", NoneVal)
    /\ output = Printed(<<1>>)

(***************************************************************************)
(* Claims about conditionals and recursion in the Energy pass              *)
(***************************************************************************)
\* C23: when the tree is one if statement and the budget is not exceeded, the
\* total is the condition cost 5, plus the cost of the condition expression,
\* plus the larger of the costs of the two branches (0 for a missing else).
C23_IfAddsMaxOfBranches ==
    ( /\ energy_report # NoReport
      /\ energy_report.within_budget
      /\ Len(tree.statements) = 1
      /\ tree.statements[1].kind = "IfStatement" )
    => LET node == tree.statements[1] IN
       energy_report.total_cost =
           IfConditionCost + ExpressionCost(node.condition)
           + Max(BlockCost(node.then_body), BlockCost(node.else_body))

RECURSIVE CallsIn(_, _)
\* whether a tree holds a call whose callee is the plain variable `name`
CallsIn(node, name) ==
    IF node = NoNode THEN FALSE
    ELSE LET Within(nodes) == \E i \in 1..Len(nodes) : CallsIn(nodes[i], name) IN
         CASE node.kind = "FunctionCall" ->
                \/ node.function.kind = "Variable" /\ node.function.name = name
                \/ CallsIn(node.function, name)
                \/ Within(node.arguments)
           [] node.kind = "Assignment" -> CallsIn(node.value, name)
           [] node.kind = "ReturnStatement" -> CallsIn(node.value, name)
           [] node.kind = "BinaryOp" -> CallsIn(node.left, name) \/ CallsIn(node.right, name)
           [] node.kind = "UnaryOp" -> CallsIn(node.operand, name)
           [] node.kind = "IfStatement" ->
                CallsIn(node.condition, name) \/ Within(node.then_body) \/ Within(node.else_body)
           [] node.kind = "WhileLoop" -> CallsIn(node.condition, name) \/ Within(node.body)
           [] node.kind = "ForLoop" -> CallsIn(node.iterable, name) \/ Within(node.body)
           [] node.kind = "ListLiteral" -> Within(node.elements)
           [] node.kind = "MemberAccess" -> CallsIn(node.object, name)
           [] node.kind = "IndexAccess" -> CallsIn(node.object, name) \/ CallsIn(node.index, name)
           [] OTHER -> FALSE

\* the top-level function definitions of the tree whose body calls the
\* function itself
SelfCalling ==
    {i \in 1..Len(tree.statements) :
        /\ tree.statements[i].kind = "FunctionDef"
        /\ \E k \in 1..Len(tree.statements[i].body) :
              CallsIn(tree.statements[i].body[k], tree.statements[i].name)}

\* C24: when the budget is not exceeded, every function of the tree whose
\* body calls the function itself has a recursion_detected violation whose
\* penalty is 10 times the cost measured for the function; a tree that is one
\* such function totals the body cost plus that penalty.
C24_SelfCallPenalised ==
    (energy_report # NoReport /\ energy_report.within_budget)
    => \A i \in SelfCalling :
          LET name == tree.statements[i].name
              cost == energy_report.function_costs[name]
          IN /\ \E v \in 1..Len(energy_report.violations) :
                   /\ energy_report.violations[v].type = "recursion_detected"
                   /\ energy_report.violations[v].detail = MAX_RECURSION_DEPTH * cost
             /\ Len(tree.statements) = 1
                => energy_report.total_cost = cost + MAX_RECURSION_DEPTH * cost

\* the part of C24 about a self-call that is a statement of the body, of an
\* else branch or of a loop body: it is penalised
C24_StatementSelfCallPenalised ==
    ( /\ energy_report # NoReport
      /\ energy_report.within_budget
      /\ tree \in {Program(<<SelfDef(<<SelfCall>>)>>),
                   Program(<<SelfDef(<<ForLoop("i", ListLiteral(<<IntLit(1)>>),
                                               <<SelfCall>>)>>)>>)} )
    => /\ Len(energy_report.violations) = 1
       /\ energy_report.violations[1].type = "recursion_detected"
       /\ energy_report.total_cost = 11 * energy_report.function_costs["f"]

(***************************************************************************)
(* Claims about the Readability pass                                       *)
(***************************************************************************)
RECURSIVE Decisions(_)
\* the branches (an if, and its else when it has one), loops and and/or
\* operators of a tree
Decisions(node) ==
    IF node = NoNode THEN 0
    ELSE LET RECURSIVE Total(_)
             Total(nodes) == IF nodes = <<>> THEN 0
                             ELSE Decisions(nodes[1]) + Total(Tail(nodes))
         IN CASE node.kind = "Program" -> Total(node.statements)
              [] node.kind = "FunctionDef" -> Total(node.body)
              [] node.kind = "IfStatement" ->
                    1 + (IF node.else_body # <<>> THEN 1 ELSE 0)
                    + Decisions(node.condition) + Total(node.then_body)
                    + Total(node.else_body)
              [] node.kind = "WhileLoop" -> 1 + Decisions(node.condition) + Total(node.body)
              [] node.kind = "ForLoop" -> 1 + Decisions(node.iterable) + Total(node.body)
              [] node.kind = "BinaryOp" ->
                    (IF node.operator \in {"and", "or"} THEN 1 ELSE 0)
                    + Decisions(node.left) + Decisions(node.right)
              [] node.kind = "UnaryOp" -> Decisions(node.operand)
              [] node.kind = "Assignment" -> Decisions(node.value)
              [] node.kind = "ReturnStatement" -> Decisions(node.value)
              [] node.kind = "FunctionCall" ->
                    Decisions(node.function) + Total(node.arguments)
              [] node.kind = "ListLiteral" -> Total(node.elements)
              [] node.kind = "MemberAccess" -> Decisions(node.object)
              [] node.kind = "IndexAccess" -> Decisions(node.object) + Decisions(node.index)
              [] OTHER -> 0

RECURSIVE Definitions(_)
\* the function definitions among the statements of a block, nested ones
\* included
Definitions(statements) ==
    IF statements = <<>> THEN 0
    ELSE LET stmt == statements[1] IN
         (CASE stmt.kind = "FunctionDef" -> 1 + Definitions(stmt.body)
            [] stmt.kind = "IfStatement" ->
                  Definitions(stmt.then_body) + Definitions(stmt.else_body)
            [] stmt.kind \in {"WhileLoop", "ForLoop"} -> Definitions(stmt.body)
            [] OTHER -> 0)
         + Definitions(Tail(statements))

\* the walk analyze makes for the report in readability_report
ReadabilityWalk == RdVisit(tree, ReadabilityInit(readability_report.min_score))

\* C26: the complexity figure the scorer holds after its walk is 1 plus the
\* number of branches, loops and and/or operators of the tree, and the
\* complexity sub-score is 100 while the figure is at most 10.
C26_ComplexityIsOnePlusDecisions ==
    readability_report # NoReport
    => /\ ReadabilityWalk.complexity = 1 + Decisions(tree)
       /\ ReadabilityWalk.complexity <= MAX_COMPLEXITY
          => readability_report.scores.complexity = 100

\* what the scorer computes: the figure is the number of function
\* definitions plus the number of decisions, so it is 1 plus the decisions
\* exactly for a tree with one function definition; the sub-score is 100
\* while the figure is at most 10
C26_ComplexityCountsDefinitions ==
    readability_report # NoReport
    => /\ ReadabilityWalk.complexity = Definitions(tree.statements) + Decisions(tree)
       /\ ReadabilityWalk.complexity <= MAX_COMPLEXITY
          => readability_report.scores.complexity = 100

(***************************************************************************)
(* RepeatSpec: analyze called again and again on one analyzer instance.    *)
(* `analyzer` holds the attributes of the instance between the calls: each *)
(* analyze starts from what the walk before left in them, less what        *)
(* analyze itself resets.                                                   *)
(***************************************************************************)
\* the calls of analyze made on the instance
MaxCalls == 2

\* EnergyAnalyzer.analyze on an existing instance: total_cost and violations
\* are reset, the other attributes are kept
EnergyAnalyzeOn(state, root) ==
    LET st == EnVisit(root, [state EXCEPT !.total_cost = 0, !.violations = <<>>,
                                          !.aborted = FALSE, !.added = <<>>])
        violations == IF st.total_cost > st.budget
                      THEN Append(st.violations,
                                  [type |-> "budget_exceeded", detail |-> st.total_cost])
                      ELSE st.violations
    IN [state |-> st,
        report |-> [total_cost |-> st.total_cost, budget |-> st.budget,
                    within_budget |-> st.total_cost <= st.budget,
                    violations |-> violations, function_costs |-> st.function_costs]]

\* EthicsChecker.analyze on an existing instance: violations is reset
EthicsAnalyzeOn(state, root) ==
    LET st == EthVisit(root, [state EXCEPT !.violations = <<>>, !.aborted = FALSE]) IN
    [state |-> st,
     report |-> [passed |-> Len(st.violations) = 0, violations |-> st.violations,
                 strict_mode |-> st.strict_mode]]

\* ClevernessDetector.analyze on an existing instance: violations is reset
ClevernessAnalyzeOn(state, root) ==
    LET st == ClvVisit(root, [state EXCEPT !.violations = <<>>, !.aborted = FALSE]) IN
    [state |-> st,
     report |-> [passed |-> Len(st.violations) = 0, violations |-> st.violations,
                 strict_mode |-> st.strict_mode]]

\* self.scores of a new ReadabilityScorer
InitialScores ==
    [complexity |-> 100, nesting |-> 100, function_length |-> 100,
     naming_num |-> 100, naming_den |-> 1]

\* self.scores after _calculate_scores on an existing instance: a component is
\* overwritten only when its figure is over the limit (naming always)
KeptScores(st, c, scores) ==
    [complexity |-> IF st.complexity > MAX_COMPLEXITY
                    THEN c.scores.complexity ELSE scores.complexity,
     nesting |-> IF st.max_nesting > Readability_MAX_NESTING_DEPTH
                 THEN c.scores.nesting ELSE scores.nesting,
     function_length |->
         IF MaxOver(st.function_stats, DOMAIN st.function_stats) > MAX_FUNCTION_LENGTH
         THEN c.scores.function_length ELSE scores.function_length,
     naming_num |-> c.scores.naming_num,
     naming_den |-> c.scores.naming_den]

\* the weighted overall score of self.scores, in tenths
OverallTenths(kept) ==
    RoundHalfEven((30 * kept.complexity + 25 * kept.nesting
                   + 20 * kept.function_length) * kept.naming_den
                  + 25 * kept.naming_num,
                  10 * kept.naming_den)

\* what analyze returns, with the scorer as it is left
ScoredReport(st, c, kept, overall_tenths, passed) ==
    [state |-> st, scores |-> kept,
     report |-> [overall_score |-> overall_tenths, min_score |-> st.min_score,
                 passed |-> passed, scores |-> kept,
                 issues |-> IF passed THEN c.issues
                            ELSE Append(c.issues, [type |-> "low_readability",
                                                   subject |-> overall_tenths]),
                 function_stats |-> st.function_stats]]

\* the report from the walked scorer and its figures
ScoredWith(st, c, kept, overall_tenths) ==
    ScoredReport(st, c, kept, overall_tenths, overall_tenths >= 10 * st.min_score)

\* the report from the walked scorer
Scored(st, c, scores) ==
    ScoredWith(st, c, KeptScores(st, c, scores), OverallTenths(KeptScores(st, c, scores)))

\* ReadabilityScorer.analyze on an existing instance: issues and
\* function_stats are reset, the other attributes are kept
ReadabilityAnalyzeOn(state, scores, root) ==
    LET st == RdVisit(root, [state EXCEPT !.function_stats = <<>>])
    IN Scored(st, calculate_scores(st), scores)

\* the analyzers as their constructors leave them
NewAnalyzers ==
    {[pass |-> "energy", state |-> EnergyInit(budget)] : budget \in Budgets}
    \cup {[pass |-> "ethics", state |-> EthicsInit(strict_mode)] : strict_mode \in BOOLEAN}
    \cup {[pass |-> "cleverness", state |-> CleverInit(strict_mode)] :
             strict_mode \in BOOLEAN}
    \cup {[pass |-> "readability", state |-> ReadabilityInit(min_score),
           scores |-> InitialScores] : min_score \in MinScores}

RepeatInit ==
    /\ tree \in Programs
    /\ analyzer \in NewAnalyzers
    /\ replies = <<>>
    /\ reports = [key \in ReportKeys |-> NoReport]
    /\ energy_report = NoReport
    /\ readability_report = NoReport
    /\ LexIdle
    /\ ParseIdle
    /\ RunIdle
    /\ PipelineIdle

\* analyzer.analyze(tree), analyzer an EnergyAnalyzer
RepeatEnergy ==
    /\ analyzer.pass = "energy"
    /\ Len(replies) < MaxCalls
    /\ LET r == EnergyAnalyzeOn(analyzer.state, tree) IN
          /\ analyzer' = [analyzer EXCEPT !.state = r.state]
          /\ replies' = Append(replies, r.report)
    /\ UNCHANGED <<tree, reports, energy_report, readability_report, lexVars, parseVars, runVars,
                   pipeVars>>

\* analyzer.analyze(tree), analyzer an EthicsChecker
RepeatEthics ==
    /\ analyzer.pass = "ethics"
    /\ Len(replies) < MaxCalls
    /\ LET r == EthicsAnalyzeOn(analyzer.state, tree) IN
          /\ analyzer' = [analyzer EXCEPT !.state = r.state]
          /\ replies' = Append(replies, r.report)
    /\ UNCHANGED <<tree, reports, energy_report, readability_report, lexVars, parseVars, runVars,
                   pipeVars>>

\* analyzer.analyze(tree), analyzer a ClevernessDetector
RepeatCleverness ==
    /\ analyzer.pass = "cleverness"
    /\ Len(replies) < MaxCalls
    /\ LET r == ClevernessAnalyzeOn(analyzer.state, tree) IN
          /\ analyzer' = [analyzer EXCEPT !.state = r.state]
          /\ replies' = Append(replies, r.report)
    /\ UNCHANGED <<tree, reports, energy_report, readability_report, lexVars, parseVars, runVars,
                   pipeVars>>

\* analyzer.analyze(tree), analyzer a ReadabilityScorer
RepeatReadability ==
    /\ analyzer.pass = "readability"
    /\ Len(replies) < MaxCalls
    /\ LET r == ReadabilityAnalyzeOn(analyzer.state, analyzer.scores, tree) IN
          /\ analyzer' = [analyzer EXCEPT !.state = r.state, !.scores = r.scores]
          /\ replies' = Append(replies, r.report)
    /\ UNCHANGED <<tree, reports, energy_report, readability_report, lexVars, parseVars, runVars,
                   pipeVars>>

RepeatNext ==
    \/ RepeatEnergy
    \/ RepeatEthics
    \/ RepeatCleverness
    \/ RepeatReadability

RepeatSpec == RepeatInit /\ [][RepeatNext]_vars

\* C30: every call of analyze on the instance returns the report the first
\* call returned.
C30_AnalyzeRepeatable ==
    \A i \in 1..Len(replies) : replies[i] = replies[1]

\* the first call of analyze on an instance returns what analyze of a newly
\* constructed analyzer returns
FirstReplyIsFresh ==
    Len(replies) >= 1
    => replies[1] =
         CASE analyzer.pass = "energy" -> EnergyAnalyze(tree, analyzer.state.budget)
           [] analyzer.pass = "ethics" -> EthicsAnalyze(tree, analyzer.state.strict_mode)
           [] analyzer.pass = "cleverness" ->
                 ClevernessAnalyze(tree, analyzer.state.strict_mode)
           [] analyzer.pass = "readability" ->
                 ReadabilityAnalyze(tree, analyzer.state.min_score)

\* the part of C30 that holds: the Ethics and Cleverness reports repeat
C30_EthicsAndClevernessRepeat ==
    analyzer.pass \in {"ethics", "cleverness"}
    => \A i \in 1..Len(replies) : replies[i] = replies[1]

(***************************************************************************)
(* Claims about environments                                               *)
(***************************************************************************)
\* the environments that exist are left as they are
OthersKept(changed) ==
    \A e \in 1..Len(environments) : e \notin changed => environments'[e] = environments[e]

\* the environment made by the step for the top-level for loop
LoopEnv == Len(environments) + 1

\* the environment made by the step for the call of a top-level assignment
CallEnv == Len(environments) + 1

\* C25: an assignment changes one environment.  Marked as a first binding (as
\* every assignment of a parsed program is) it binds in the current
\* environment: a top-level assignment binds the name in the global
\* environment and changes no other environment; in the body of a top-level
\* for loop it binds in the loop's environment and leaves a global binding of
\* the name as it was.  Not marked, it updates the nearest binding of the name
\* in the chain (the global total from inside the loop, which gets no binding
\* of total, and from inside the call of bump, whose environment stays
\* empty), and binds in the current environment when the chain has none.  The
\* first case is stated for every top-level assignment but result = bump(),
\* whose value runs the update of total before result is bound.
C25_AssignmentBindsOneEnvironment ==
    [][/\ ( /\ run_status = "running"
            /\ stmt_index <= Len(program.statements)
            /\ program.statements[stmt_index].kind = "Assignment"
            /\ program.statements[stmt_index].is_declaration
            /\ program.statements[stmt_index] # ResultBump
            /\ run_status' = "running" )
          => /\ environments'[GlobalEnv].bindings
                   = Bind(environments[GlobalEnv].bindings,
                          program.statements[stmt_index].name, result')
             /\ environments'[GlobalEnv].parent = environments[GlobalEnv].parent
             /\ OthersKept({GlobalEnv})
       /\ (AtStatement(ResultBump) /\ GlobalBinds("total", IntVal(0)))
          => /\ run_status' = "running"
             /\ environments'[GlobalEnv].bindings
                   = Bind(Bind(environments[GlobalEnv].bindings, "total", IntVal(1)),
                          "result", IntVal(1))
             /\ OthersKept({GlobalEnv})
             /\ DOMAIN environments'[CallEnv].bindings = {}
       /\ ( /\ AtStatement(SumLoop5)
            /\ "total" \in DOMAIN environments[GlobalEnv].bindings
            /\ run_status' = "running" )
          => /\ OthersKept({})
             /\ environments'[LoopEnv].bindings =
                   [n \in {"i", "total"} |->
                       IF n = "i" THEN IntVal(5)
                       ELSE IntVal(environments[GlobalEnv].bindings["total"].i + 15)]
       /\ (AtStatement(UpdateLoop) /\ GlobalBinds("total", IntVal(0)))
          => /\ run_status' = "running"
             /\ environments'[GlobalEnv].bindings
                   = Bind(environments[GlobalEnv].bindings, "total", IntVal(6))
             /\ OthersKept({GlobalEnv})
             /\ environments'[LoopEnv].bindings = [n \in {"i"} |-> IntVal(3)]
       /\ AtStatement(SeenLoop)
          => /\ run_status' = "running"
             /\ OthersKept({})
             /\ environments'[LoopEnv].bindings = [n \in {"i", "seen"} |-> IntVal(3)]
      ]_vars

\* the loop has shadowed the global total: the global binding is still 0,
\* the loop's environment binds total to 15
C25_Witness ==
    /\ program = Program(<<TotalZero, SumLoop5, ResultTotal>>)
    /\ run_status = "done"
    /\ GlobalBinds("total", IntVal(0))
    /\ GlobalBinds("result", IntVal(0))
    /\ \E e \in 2..Len(environments) :
          /\ environments[e].made_by = "loop"
          /\ environments[e].bindings["total"] = IntVal(15)

\* an assignment that is not a first binding has updated the global total
\* from inside the loop
C25_WitnessUpdate ==
    /\ program = Program(<<TotalZero, UpdateLoop, ResultTotal>>)
    /\ run_status = "done"
    /\ GlobalBinds("total", IntVal(6))
    /\ GlobalBinds("result", IntVal(6))

RECURSIVE ChainRoot(_)
\* the last environment of the parent chain from e
ChainRoot(e) == IF environments[e].parent = 0 THEN e ELSE ChainRoot(environments[e].parent)

\* the environments made for calls, and for loops
MadeBy(kind) == {e \in 1..Len(environments) : environments[e].made_by = kind}

\* C27: whenever a top-level statement has ended, normally, by a return or
\* by an error raised inside a loop or a call, the active environment is the
\* global one, and the parent chain of every environment ends at the global
\* one.  Inside a call the exit of a loop or of a nested call restores the
\* call's environment: sum_to reads its own total (0) after its loop, whose
\* environment holds the loop's total (15); keep_y binds `ignored` next to its
\* y after set_y has returned.
C27_EnvironmentRestored ==
    /\ current_env = GlobalEnv
    /\ \A e \in 1..Len(environments) : ChainRoot(e) = GlobalEnv
    /\ (Executed(ResultSumTo) /\ GlobalBinds("sum_to", FuncVal(SumToDef)))
       => /\ result = IntVal(0)
          /\ \E c \in MadeBy("call"), l \in MadeBy("loop") :
                /\ environments[l].parent = c
                /\ environments[c].bindings = [n \in {"total"} |-> IntVal(0)]
                /\ environments[l].bindings["total"] = IntVal(15)
    /\ ( /\ Executed(ResultKeepY)
         /\ GlobalBinds("keep_y", FuncVal(KeepYDef))
         /\ GlobalBinds("set_y", FuncVal(SetYDef)) )
       => \E c \in MadeBy("call") :
             environments[c].bindings =
                 [n \in {"y", "ignored"} |-> IF n = "y" THEN IntVal(5) ELSE IntVal(99)]

\* a division by zero has ended a for loop in its first iteration
C27_Witness ==
    /\ program = Program(<<FaultLoop, PrintInt(7)>>)
    /\ run_status = "fault"
    /\ MadeBy("loop") = {2}
    /\ environments[2].bindings = [n \in {"i"} |-> IntVal(1)]
    /\ output = <<>>

\* an exception of the host has ended a loop inside a call
C27_WitnessCrash ==
    /\ program = Program(<<CrashDef, ResultCrash, PrintInt(7)>>)
    /\ run_status = "crash"
    /\ MadeBy("call") = {2}
    /\ MadeBy("loop") = {3}

\* a call has returned from inside a for loop and the run has gone on
C27_WitnessReturn ==
    /\ program = Program(<<FindDef, ResultFind, PrintInt(7)>>)
    /\ run_status = "done"
    /\ MadeBy("call") # {}
    /\ MadeBy("loop") # {}

RECURSIVE AllMarked(_)
\* every assignment among the statements is marked as a first binding, as the
\* parser builds them
AllMarked(statements) ==
    IF statements = <<>> THEN TRUE
    ELSE LET stmt == statements[1] IN
         /\ CASE stmt.kind = "Assignment" -> stmt.is_declaration
              [] stmt.kind = "FunctionDef" -> AllMarked(stmt.body)
              [] stmt.kind = "IfStatement" ->
                    AllMarked(stmt.then_body) /\ AllMarked(stmt.else_body)
              [] stmt.kind \in {"WhileLoop", "ForLoop"} -> AllMarked(stmt.body)
              [] OTHER -> TRUE
         /\ AllMarked(Tail(statements))

\* the bindings with one name left out
Without(bindings, name) == [n \in DOMAIN bindings \ {name} |-> bindings[n]]

C29_WitnessUnmarked ==
    /\ program = Program(<<TotalZero, BumpDef, ResultBump>>)
    /\ run_status = "done"
    /\ GlobalBinds("total", IntVal(1))
    /\ GlobalBinds("result", IntVal(1))

(***************************************************************************)
(* Claims about execution after a successful analysis                      *)
(***************************************************************************)
\* the input is the program `while true: x = 1`, to be run under the
\* default configuration
ForeverRun ==
    /\ input.parses
    /\ input.ast = Program(<<ForeverLoop>>)
    /\ config.command = "run"
    /\ DefaultConfig

\* C22: the program `while true: x = 1` passes the four passes under the
\* default configuration (no error, every report without violation or issue,
\* the estimated cost within the budget), and its execution does not end: main
\* never returns, and within every number of loop iterations up to MaxSteps
\* the loop is still running.
C22_PassingProgramRunsForever ==
    ForeverRun
    => /\ errors = <<>>
       /\ pc # "exit"
       /\ exit_code = -1
       /\ results["energy"] # NoReport
          => results["energy"].within_budget /\ results["energy"].violations = <<>>
       /\ \A pass \in {"ethics", "cleverness"} :
             results[pass] # NoReport
             => results[pass].passed /\ results[pass].violations = <<>>
       /\ results["readability"] # NoReport => results["readability"].passed
       /\ pc = "execute"
          => /\ passes_run = PassOrder
             /\ \A fuel \in 0..MaxSteps : execute(ast, fuel).out = "timeout"

\* the four passes have accepted the program and main is executing it
C22_Witness ==
    /\ ForeverRun
    /\ pc = "execute"
    /\ started
    /\ passes_run = PassOrder
    /\ results["energy"].total_cost <= DefaultBudget

(***************************************************************************)
(* Parser (src/ethicalang/parser/parser.py)                                *)
(*                                                                         *)
(* A token is its type and its value.  A call of one of the parse methods  *)
(* is a frame: the method's name, the point `at` the call has reached, the *)
(* position `entered` it was made at, and the method's local variables.    *)
(* A step runs the innermost call from where it stands to its next call of *)
(* a parse method, to its return, or to the error it raises; what match,   *)
(* advance, consume, peek, skip_newlines and error do is part of the step. *)
(***************************************************************************)
Token(type, value) == [type |-> type, value |-> value]

\* self.current_token when self.pos has passed the last token
NoToken == Token("None", NoneVal)

\* Parser.peek; TokenAt(parse_pos) is self.current_token
TokenAt(p) == IF p < Len(parse_tokens) THEN parse_tokens[p + 1] ELSE NoToken

\* Parser.match with the current token at p
match(p, token_types) == TokenAt(p).type \in token_types

\* Parser.skip_newlines from p: the position it stops at
RECURSIVE skip_newlines(_)
skip_newlines(p) == IF match(p, {"NEWLINE"}) THEN skip_newlines(p + 1) ELSE p

\* the name consume and parse_primary print for the current token
TypeName(p) == IF TokenAt(p) = NoToken THEN "EOF" ELSE TokenAt(p).type

\* what a step ends with
Call(callee, arguments, frame, p) ==
    [do |-> "call", callee |-> callee, arguments |-> arguments, frame |-> frame, pos |-> p]
Return(value, p) == [do |-> "return", value |-> value, pos |-> p]
\* Parser.error at p
Fail(message, p) == [do |-> "raise", message |-> message, pos |-> p]
\* the error of a consume that was given no message
Refuse(token_type, p) == Fail(<<"Expected", token_type, "got", TypeName(p)>>, p)

NoLocals == [at |-> "start"]

\* the frame as it waits for the call it made, its locals updated
Wait(frame, at, locals) == ([at |-> at] @@ locals) @@ frame

\* the innermost call
Top == frames[Len(frames)]

\* the depth of the innermost call on the host's stack when parse was called
\* from the top level of a script
Depth == Len(frames) + 1

\* the depth of calls the host allows (CPython's default recursion limit);
\* none of the parse methods catches the RecursionError raised beyond it
RecursionLimit == 1000

In(method) == parse_status = "running" /\ Top.fn = method

Unwind(exception, message, p) ==
    /\ frames' = <<>>
    /\ returned' = [kind |-> exception, message |-> message, pos |-> p]
    /\ parse_pos' = p
    /\ parse_status' = exception

\* the step e of the innermost call.  A call at depth RecursionLimit has no
\* depth left for the calls of its own, the helpers' included.
Do(e) ==
    /\ UNCHANGED <<parse_tokens, lexVars, anVars, runVars, pipeVars>>
    /\ IF Depth >= RecursionLimit
       THEN Unwind("RecursionError", <<"maximum recursion depth exceeded">>, parse_pos)
       ELSE CASE e.do = "call" ->
                   /\ frames' = Append(Front(frames), e.frame)
                                \o <<e.arguments @@ [fn |-> e.callee, at |-> "start",
                                                      entered |-> e.pos]>>
                   /\ parse_pos' = e.pos
                   /\ UNCHANGED <<returned, parse_status>>
              [] e.do = "return" ->
                   /\ frames' = Front(frames)
                   /\ returned' = e.value
                   /\ parse_pos' = e.pos
                   /\ parse_status' = IF Len(frames) = 1 THEN "done" ELSE "running"
              [] e.do = "raise" -> Unwind("ParseError", e.message, e.pos)

\* parse_logical_or .. parse_factor: operands parsed by `operand`, joined
\* from the left for as long as one of `operators` follows
LeftAssociative(f, operators, operand) ==
    IF f.at = "start"
    THEN Call(operand, NoLocals, Wait(f, "left", NoLocals), parse_pos)
    ELSE LET left == IF f.at = "left" THEN returned ELSE BinaryOp(f.left, f.op, returned) IN
         IF match(parse_pos, operators)
         THEN LET op == TokenAt(parse_pos).value IN
              Call(operand, NoLocals, Wait(f, "right", [left |-> left, op |-> op]),
                   parse_pos + 1)
         ELSE Return(left, parse_pos)

parse_expression ==
    /\ In("parse_expression")
    /\ Do(IF Top.at = "start"
          THEN Call("parse_logical_or", NoLocals, Wait(Top, "return", NoLocals), parse_pos)
          ELSE Return(returned, parse_pos))

\* BinaryOp(left, 'or', right): the OR token's value is 'or'
parse_logical_or ==
    In("parse_logical_or") /\ Do(LeftAssociative(Top, {"OR"}, "parse_logical_and"))

\* BinaryOp(left, 'and', right): the AND token's value is 'and'
parse_logical_and ==
    In("parse_logical_and") /\ Do(LeftAssociative(Top, {"AND"}, "parse_equality"))

parse_equality ==
    In("parse_equality") /\ Do(LeftAssociative(Top, {"EQ", "NE"}, "parse_comparison"))

parse_comparison ==
    In("parse_comparison")
    /\ Do(LeftAssociative(Top, {"LT", "LE", "GT", "GE"}, "parse_term"))

parse_term ==
    In("parse_term") /\ Do(LeftAssociative(Top, {"PLUS", "MINUS"}, "parse_factor"))

parse_factor ==
    In("parse_factor")
    /\ Do(LeftAssociative(Top, {"MULTIPLY", "DIVIDE", "MODULO"}, "parse_unary"))

parse_unary ==
    /\ In("parse_unary")
    /\ Do(CASE Top.at = "start" ->
                 IF match(parse_pos, {"NOT", "MINUS"})
                 THEN Call("parse_unary", NoLocals,
                           Wait(Top, "operand", [op |-> TokenAt(parse_pos).value]),
                           parse_pos + 1)
                 ELSE Call("parse_power", NoLocals, Wait(Top, "return", NoLocals), parse_pos)
            [] Top.at = "operand" -> Return(UnaryOp(Top.op, returned), parse_pos)
            [] Top.at = "return" -> Return(returned, parse_pos))

\* parse_power were it to join its operands from the left
parse_power_FromTheLeft ==
    In("parse_power") /\ Do(LeftAssociative(Top, {"POWER"}, "parse_postfix"))

parse_power ==
    /\ In("parse_power")
    /\ Do(CASE Top.at = "start" ->
                 Call("parse_postfix", NoLocals, Wait(Top, "left", NoLocals), parse_pos)
            [] Top.at = "left" ->
                 IF match(parse_pos, {"POWER"})
                 THEN Call("parse_power", NoLocals,
                           Wait(Top, "right", [left |-> returned,
                                               op |-> TokenAt(parse_pos).value]),
                           parse_pos + 1)
                 ELSE Return(returned, parse_pos)
            [] Top.at = "right" -> Return(BinaryOp(Top.left, Top.op, returned), parse_pos))

\* parse_postfix's loop from p with expr parsed so far, up to its next call
\* of parse_expression, its break, or the error of a consume
RECURSIVE Postfix(_, _, _)
Postfix(f, expr, p) ==
    IF match(p, {"LPAREN"})
    THEN (IF ~match(p + 1, {"RPAREN"})
          THEN Call("parse_expression", NoLocals,
                    Wait(f, "argument", [expr |-> expr, arguments |-> <<>>]), p + 1)
          ELSE Postfix(f, FunctionCall(expr, <<>>), p + 2))
    ELSE IF match(p, {"LBRACKET"})
    THEN Call("parse_expression", NoLocals, Wait(f, "index", [expr |-> expr]), p + 1)
    ELSE IF match(p, {"DOT"})
    THEN (IF match(p + 1, {"IDENTIFIER"})
          THEN Postfix(f, MemberAccess(expr, TokenAt(p + 1).value), p + 2)
          ELSE Fail(<<"Expected member name">>, p + 1))
    ELSE Return(expr, p)

parse_postfix ==
    /\ In("parse_postfix")
    /\ Do(CASE Top.at = "start" ->
                 Call("parse_primary", NoLocals, Wait(Top, "primary", NoLocals), parse_pos)
            [] Top.at = "primary" -> Postfix(Top, returned, parse_pos)
            [] Top.at = "argument" ->
                 LET arguments == Append(Top.arguments, returned) IN
                 IF match(parse_pos, {"COMMA"})
                 THEN Call("parse_expression", NoLocals,
                           Wait(Top, "argument", [arguments |-> arguments]), parse_pos + 1)
                 ELSE IF match(parse_pos, {"RPAREN"})
                 THEN Postfix(Top, FunctionCall(Top.expr, arguments), parse_pos + 1)
                 ELSE Refuse("RPAREN", parse_pos)
            [] Top.at = "index" ->
                 IF match(parse_pos, {"RBRACKET"})
                 THEN Postfix(Top, IndexAccess(Top.expr, returned), parse_pos + 1)
                 ELSE Refuse("RBRACKET", parse_pos))

parse_primary ==
    /\ In("parse_primary")
    /\ LET token == TokenAt(parse_pos) IN
       Do(CASE Top.at = "start" ->
                 IF match(parse_pos, {"INTEGER"})
                 THEN Return(Literal(token.value, "int"), parse_pos + 1)
                 ELSE IF match(parse_pos, {"FLOAT"})
                 THEN Return(Literal(token.value, "float"), parse_pos + 1)
                 ELSE IF match(parse_pos, {"STRING"})
                 THEN Return(Literal(token.value, "string"), parse_pos + 1)
                 ELSE IF match(parse_pos, {"TRUE", "FALSE"})
                 THEN Return(Literal(token.value, "bool"), parse_pos + 1)
                 ELSE IF match(parse_pos, {"NONE"})
                 THEN Return(Literal(NoneVal, "none"), parse_pos + 1)
                 ELSE IF match(parse_pos, {"IDENTIFIER"})
                 THEN Return(Variable(token.value), parse_pos + 1)
                 ELSE IF match(parse_pos, {"LPAREN"})
                 THEN Call("parse_expression", NoLocals, Wait(Top, "paren", NoLocals),
                           parse_pos + 1)
                 ELSE IF match(parse_pos, {"LBRACKET"})
                 THEN Call("parse_list_literal", NoLocals, Wait(Top, "return", NoLocals),
                           parse_pos)
                 ELSE IF match(parse_pos, {"LBRACE"})
                 THEN Call("parse_dict_literal", NoLocals, Wait(Top, "return", NoLocals),
                           parse_pos)
                 ELSE Fail(<<"Unexpected token", TypeName(parse_pos)>>, parse_pos)
            [] Top.at = "paren" ->
                 IF match(parse_pos, {"RPAREN"})
                 THEN Return(returned, parse_pos + 1)
                 ELSE Fail(<<"Expected ')' after expression">>, parse_pos)
            [] Top.at = "return" -> Return(returned, parse_pos))

parse_list_literal ==
    /\ In("parse_list_literal")
    /\ Do(CASE Top.at = "start" ->
                 IF ~match(parse_pos, {"LBRACKET"}) THEN Refuse("LBRACKET", parse_pos)
                 ELSE IF ~match(parse_pos + 1, {"RBRACKET"})
                 THEN Call("parse_expression", NoLocals,
                           Wait(Top, "element", [elements |-> <<>>]), parse_pos + 1)
                 ELSE Return(ListLiteral(<<>>), parse_pos + 2)
            [] Top.at = "element" ->
                 LET elements == Append(Top.elements, returned)
                     \* where the while loop over the commas leaves off
                     after == IF match(parse_pos, {"COMMA"}) THEN parse_pos + 1 ELSE parse_pos
                 IN  IF match(parse_pos, {"COMMA"}) /\ ~match(after, {"RBRACKET"})
                     THEN Call("parse_expression", NoLocals,
                               Wait(Top, "element", [elements |-> elements]), after)
                     ELSE IF match(after, {"RBRACKET"})
                     THEN Return(ListLiteral(elements), after + 1)
                     ELSE Refuse("RBRACKET", after))

parse_dict_literal ==
    /\ In("parse_dict_literal")
    /\ Do(CASE Top.at = "start" ->
                 IF ~match(parse_pos, {"LBRACE"}) THEN Refuse("LBRACE", parse_pos)
                 ELSE IF ~match(parse_pos + 1, {"RBRACE"})
                 THEN Call("parse_expression", NoLocals,
                           Wait(Top, "key", [pairs |-> <<>>]), parse_pos + 1)
                 ELSE Return(DictLiteral(<<>>), parse_pos + 2)
            [] Top.at = "key" ->
                 IF match(parse_pos, {"COLON"})
                 THEN Call("parse_expression", NoLocals,
                           Wait(Top, "value", [key |-> returned]), parse_pos + 1)
                 ELSE Refuse("COLON", parse_pos)
            [] Top.at = "value" ->
                 LET pairs == Append(Top.pairs, <<Top.key, returned>>)
                     after == IF match(parse_pos, {"COMMA"}) THEN parse_pos + 1 ELSE parse_pos
                 IN  IF match(parse_pos, {"COMMA"}) /\ ~match(after, {"RBRACE"})
                     THEN Call("parse_expression", NoLocals,
                               Wait(Top, "key", [pairs |-> pairs]), after)
                     ELSE IF match(after, {"RBRACE"})
                     THEN Return(DictLiteral(pairs), after + 1)
                     ELSE Refuse("RBRACE", after))

\* Annotation(name, arguments) as parse_annotation builds it
AnnotationWith(name, arguments) == [arguments |-> arguments] @@ Annotation(name)

\* the loop of parse and of parse_block from p: another statement unless one
\* of `closing` is the current token
Statements(f, statements, p, closing) ==
    IF ~match(p, closing)
    THEN Call("parse_statement", NoLocals, Wait(f, "stmt", [statements |-> statements]), p)
    ELSE IF f.fn = "parse" THEN Return(Program(statements), p)
    ELSE IF match(p, {"DEDENT"}) THEN Return(statements, p + 1)
    ELSE Fail(<<"Expected dedent">>, p)

parse ==
    /\ In("parse")
    /\ Do(CASE Top.at = "start" -> Statements(Top, <<>>, skip_newlines(parse_pos), {"EOF"})
            [] Top.at = "stmt" ->
                 Statements(Top, Append(Top.statements, returned), skip_newlines(parse_pos),
                            {"EOF"}))

\* parse_statement from p, once the newlines and the annotations before it
\* are read
StatementKind(f, annotations, p) ==
    IF match(p, {"AT"})
    THEN Call("parse_annotation", NoLocals, Wait(f, "annotation", [annotations |-> annotations]),
              p)
    ELSE IF match(p, {"FUNCTION"})
    THEN Call("parse_function_def", [annotations |-> annotations],
              Wait(f, "return", NoLocals), p)
    ELSE IF match(p, {"IF"})
    THEN Call("parse_if_statement", NoLocals, Wait(f, "return", NoLocals), p)
    ELSE IF match(p, {"WHILE"})
    THEN Call("parse_while_loop", NoLocals, Wait(f, "return", NoLocals), p)
    ELSE IF match(p, {"FOR"})
    THEN Call("parse_for_loop", NoLocals, Wait(f, "return", NoLocals), p)
    ELSE IF match(p, {"RETURN"})
    THEN Call("parse_return_statement", NoLocals, Wait(f, "return", NoLocals), p)
    ELSE IF match(p, {"IDENTIFIER"}) /\ TokenAt(p + 1).type = "ASSIGN"
    THEN Call("parse_assignment", NoLocals, Wait(f, "return", NoLocals), p)
    ELSE Call("parse_expression", NoLocals, Wait(f, "expr", NoLocals), p)

parse_statement ==
    /\ In("parse_statement")
    /\ Do(CASE Top.at = "start" -> StatementKind(Top, <<>>, skip_newlines(parse_pos))
            [] Top.at = "annotation" ->
                 StatementKind(Top, Append(Top.annotations, returned),
                               skip_newlines(parse_pos))
            [] Top.at = "return" -> Return(returned, parse_pos)
            [] Top.at = "expr" -> Return(returned, skip_newlines(parse_pos)))

parse_annotation ==
    /\ In("parse_annotation")
    /\ Do(CASE Top.at = "start" ->
                 IF ~match(parse_pos, {"AT"}) THEN Refuse("AT", parse_pos)
                 ELSE IF ~match(parse_pos + 1, {"IDENTIFIER"})
                 THEN Fail(<<"Expected annotation name">>, parse_pos + 1)
                 ELSE LET name == TokenAt(parse_pos + 1).value IN
                      IF ~match(parse_pos + 2, {"LPAREN"})
                      THEN Return(AnnotationWith(name, <<>>), parse_pos + 2)
                      ELSE IF match(parse_pos + 3, {"RPAREN"})
                      THEN Return(AnnotationWith(name, <<>>), parse_pos + 4)
                      ELSE Call("parse_expression", NoLocals,
                                Wait(Top, "argument", [name |-> name, arguments |-> <<>>]),
                                parse_pos + 3)
            [] Top.at = "argument" ->
                 LET arguments == Append(Top.arguments, returned) IN
                 IF match(parse_pos, {"COMMA"})
                 THEN Call("parse_expression", NoLocals,
                           Wait(Top, "argument", [arguments |-> arguments]), parse_pos + 1)
                 ELSE IF match(parse_pos, {"RPAREN"})
                 THEN Return(AnnotationWith(Top.name, arguments), parse_pos + 1)
                 ELSE Refuse("RPAREN", parse_pos))

\* the parameter list of parse_function_def from p, after the LPAREN: the
\* names read and the position reached, or the position of the error
RECURSIVE MoreParameters(_, _)
MoreParameters(parameters, p) ==
    IF ~match(p, {"COMMA"}) THEN [ok |-> TRUE, parameters |-> parameters, pos |-> p]
    ELSE IF ~match(p + 1, {"IDENTIFIER"}) THEN [ok |-> FALSE, pos |-> p + 1]
    ELSE MoreParameters(Append(parameters, TokenAt(p + 1).value), p + 2)

Parameters(p) ==
    IF match(p, {"RPAREN"}) THEN [ok |-> TRUE, parameters |-> <<>>, pos |-> p]
    ELSE IF ~match(p, {"IDENTIFIER"}) THEN [ok |-> FALSE, pos |-> p]
    ELSE MoreParameters(<<TokenAt(p).value>>, p + 1)

parse_function_def ==
    /\ In("parse_function_def")
    /\ Do(CASE Top.at = "start" ->
                 IF ~match(parse_pos, {"FUNCTION"}) THEN Refuse("FUNCTION", parse_pos)
                 ELSE IF ~match(parse_pos + 1, {"IDENTIFIER"})
                 THEN Fail(<<"Expected function name">>, parse_pos + 1)
                 ELSE IF ~match(parse_pos + 2, {"LPAREN"}) THEN Refuse("LPAREN", parse_pos + 2)
                 ELSE LET read == Parameters(parse_pos + 3) IN
                      IF ~read.ok THEN Fail(<<"Expected parameter name">>, read.pos)
                      ELSE IF ~match(read.pos, {"RPAREN"}) THEN Refuse("RPAREN", read.pos)
                      ELSE IF ~match(read.pos + 1, {"COLON"})
                      THEN Fail(<<"Expected ':' after function signature">>, read.pos + 1)
                      ELSE Call("parse_block", NoLocals,
                                Wait(Top, "body", [name |-> TokenAt(parse_pos + 1).value,
                                                   parameters |-> read.parameters]),
                                read.pos + 2)
            [] Top.at = "body" ->
                 Return(FunctionDef(Top.name, Top.parameters, returned, Top.annotations),
                        parse_pos))

parse_block ==
    /\ In("parse_block")
    /\ Do(CASE Top.at = "start" ->
                 LET p == skip_newlines(parse_pos) IN
                 IF ~match(p, {"INDENT"}) THEN Fail(<<"Expected indented block">>, p)
                 ELSE Statements(Top, <<>>, p + 1, {"DEDENT", "EOF"})
            [] Top.at = "stmt" ->
                 Statements(Top, Append(Top.statements, returned), skip_newlines(parse_pos),
                            {"DEDENT", "EOF"}))

\* `keyword condition :` then a block, as parse_if_statement and
\* parse_while_loop start
Header(f, keyword) ==
    IF f.at = "start"
    THEN (IF ~match(parse_pos, {keyword}) THEN Refuse(keyword, parse_pos)
          ELSE Call("parse_expression", NoLocals, Wait(f, "condition", NoLocals),
                    parse_pos + 1))
    ELSE IF ~match(parse_pos, {"COLON"}) THEN Refuse("COLON", parse_pos)
    ELSE Call("parse_block", NoLocals, Wait(f, "body", [condition |-> returned]),
              parse_pos + 1)

parse_if_statement ==
    /\ In("parse_if_statement")
    /\ Do(CASE Top.at \in {"start", "condition"} -> Header(Top, "IF")
            [] Top.at = "body" ->
                 IF ~match(parse_pos, {"ELSE"})
                 THEN Return(IfStatement(Top.condition, returned, <<>>), parse_pos)
                 ELSE IF ~match(parse_pos + 1, {"COLON"}) THEN Refuse("COLON", parse_pos + 1)
                 ELSE Call("parse_block", NoLocals, Wait(Top, "else", [then_body |-> returned]),
                           parse_pos + 2)
            [] Top.at = "else" ->
                 Return(IfStatement(Top.condition, Top.then_body, returned), parse_pos))

parse_while_loop ==
    /\ In("parse_while_loop")
    /\ Do(CASE Top.at \in {"start", "condition"} -> Header(Top, "WHILE")
            [] Top.at = "body" -> Return(WhileLoop(Top.condition, returned), parse_pos))

parse_for_loop ==
    /\ In("parse_for_loop")
    /\ Do(CASE Top.at = "start" ->
                 IF ~match(parse_pos, {"FOR"}) THEN Refuse("FOR", parse_pos)
                 ELSE IF ~match(parse_pos + 1, {"IDENTIFIER"})
                 THEN Fail(<<"Expected loop variable">>, parse_pos + 1)
                 ELSE IF ~match(parse_pos + 2, {"IN"})
                 THEN Fail(<<"Expected 'in' keyword">>, parse_pos + 2)
                 ELSE Call("parse_expression", NoLocals,
                           Wait(Top, "iterable", [variable |-> TokenAt(parse_pos + 1).value]),
                           parse_pos + 3)
            [] Top.at = "iterable" ->
                 IF ~match(parse_pos, {"COLON"}) THEN Refuse("COLON", parse_pos)
                 ELSE Call("parse_block", NoLocals, Wait(Top, "body", [iterable |-> returned]),
                           parse_pos + 1)
            [] Top.at = "body" ->
                 Return(ForLoop(Top.variable, Top.iterable, returned), parse_pos))

parse_return_statement ==
    /\ In("parse_return_statement")
    /\ Do(CASE Top.at = "start" ->
                 IF ~match(parse_pos, {"RETURN"}) THEN Refuse("RETURN", parse_pos)
                 ELSE IF ~match(parse_pos + 1, {"NEWLINE", "EOF"})
                 THEN Call("parse_expression", NoLocals, Wait(Top, "value", NoLocals),
                           parse_pos + 1)
                 ELSE Return(ReturnStatement(NoNode), parse_pos + 1)
            [] Top.at = "value" -> Return(ReturnStatement(returned), parse_pos))

parse_assignment ==
    /\ In("parse_assignment")
    /\ Do(CASE Top.at = "start" ->
                 IF ~match(parse_pos, {"IDENTIFIER"}) THEN Refuse("IDENTIFIER", parse_pos)
                 ELSE IF ~match(parse_pos + 1, {"ASSIGN"}) THEN Refuse("ASSIGN", parse_pos + 1)
                 ELSE Call("parse_expression", NoLocals,
                           Wait(Top, "value", [name |-> TokenAt(parse_pos).value]),
                           parse_pos + 2)
            [] Top.at = "value" -> Return(Assignment(Top.name, returned), parse_pos))

ParseNext ==
    \/ parse
    \/ parse_statement
    \/ parse_annotation
    \/ parse_function_def
    \/ parse_block
    \/ parse_if_statement
    \/ parse_while_loop
    \/ parse_for_loop
    \/ parse_return_statement
    \/ parse_assignment
    \/ parse_expression
    \/ parse_logical_or
    \/ parse_logical_and
    \/ parse_equality
    \/ parse_comparison
    \/ parse_term
    \/ parse_factor
    \/ parse_unary
    \/ parse_power
    \/ parse_postfix
    \/ parse_primary
    \/ parse_list_literal
    \/ parse_dict_literal

(***************************************************************************)
(* Token sequences handed to the parser.  All of them are sequences that   *)
(* Lexer.tokenize returns: they end with EOF, an INDENT stands at the      *)
(* start of a line and is closed by a DEDENT, and there is no NEWLINE for  *)
(* a blank line.                                                           *)
(***************************************************************************)
\* the value Lexer.tokenize gives the token of each type that has one spelling
Spelled(type) ==
    CASE type = "TRUE" -> BoolVal(TRUE)
      [] type = "FALSE" -> BoolVal(FALSE)
      [] type \in {"NONE", "INDENT", "DEDENT", "EOF"} -> NoneVal
      [] type = "FUNCTION" -> "function"
      [] type = "RETURN" -> "return"
      [] type = "IF" -> "if"
      [] type = "ELSE" -> "else"
      [] type = "WHILE" -> "while"
      [] type = "FOR" -> "for"
      [] type = "IN" -> "in"
      [] type = "AND" -> "and"
      [] type = "OR" -> "or"
      [] type = "NOT" -> "not"
      [] type = "PLUS" -> "+"
      [] type = "MINUS" -> "-"
      [] type = "MULTIPLY" -> "*"
      [] type = "DIVIDE" -> "/"
      [] type = "MODULO" -> "%"
      [] type = "POWER" -> "**"
      [] type = "EQ" -> "=="
      [] type = "NE" -> "!="
      [] type = "LT" -> "<"
      [] type = "LE" -> "<="
      [] type = "GT" -> ">"
      [] type = "GE" -> ">="
      [] type = "ASSIGN" -> "="
      [] type = "LPAREN" -> "("
      [] type = "RPAREN" -> ")"
      [] type = "LBRACE" -> "{"
      [] type = "RBRACE" -> "}"
      [] type = "LBRACKET" -> "["
      [] type = "RBRACKET" -> "]"
      [] type = "COMMA" -> ","
      [] type = "COLON" -> ":"
      [] type = "DOT" -> "."
      [] type = "AT" -> "@"
      [] type = "NEWLINE" -> "\n"

Sym(type) == Token(type, Spelled(type))
Ident(name) == Token("IDENTIFIER", name)
Integer(n) == Token("INTEGER", IntVal(n))
String(s) == Token("STRING", StrVal(s))

Types(ts) == [i \in DOMAIN ts |-> ts[i].type]

BinaryTypes ==
    {"OR", "AND", "EQ", "NE", "LT", "LE", "GT", "GE", "PLUS", "MINUS", "MULTIPLY", "DIVIDE",
     "MODULO", "POWER"}

UnaryTypes == {"NOT", "MINUS"}

\* a op b op c
TwoOperators ==
    {<<Ident("a"), Sym(o1), Ident("b"), Sym(o2), Ident("c"), Sym("EOF")>> :
        o1 \in BinaryTypes, o2 \in BinaryTypes}

\* a op b op c op d, with one operator of every other level
ThreeOperators ==
    {<<Ident("a"), Sym(o1), Ident("b"), Sym(o2), Ident("c"), Sym(o3), Ident("d"), Sym("EOF")>> :
        o1 \in {"AND", "LT", "MINUS", "POWER"}, o2 \in {"AND", "LT", "MINUS", "POWER"},
        o3 \in {"AND", "LT", "MINUS", "POWER"}}

\* no, one or two unary operators
Prefixes ==
    {<<>>} \cup {<<Sym(u)>> : u \in UnaryTypes}
           \cup {<<Sym(u), Sym(v)>> : u \in UnaryTypes, v \in UnaryTypes}

\* a and a op b, the operands under unary operators
WithUnary ==
    {u \o <<Ident("a"), Sym("EOF")>> : u \in Prefixes}
    \cup {u \o <<Ident("a"), Sym(o)>> \o v \o <<Ident("b"), Sym("EOF")>> :
            u \in Prefixes, v \in Prefixes, o \in BinaryTypes}

Expressions == TwoOperators \cup ThreeOperators \cup WithUnary

\* longest of the sequences taken token by token from Alphabet
MaxTokens == 3

Alphabet ==
    {Ident("x"), Integer(1), Sym("ASSIGN"), Sym("NEWLINE"), Sym("RETURN"), Sym("AT"),
     Sym("LPAREN"), Sym("RPAREN"), Sym("IF"), Sym("COLON"), Sym("INDENT"), Sym("DEDENT")}

\* ts followed by EOF is a sequence tokenize can return: handle_indentation
\* runs at the start of a line that is not blank, a NEWLINE ends a line that
\* has a token, and the levels left open are closed before EOF
FromTokenizer(ts) ==
    LET t == Types(ts)
        n == Len(ts)
        Layout == {"NEWLINE", "INDENT", "DEDENT"}
        Opened(i) == CountOf(SubSeq(t, 1, i), "INDENT") - CountOf(SubSeq(t, 1, i), "DEDENT")
    IN  /\ \A i \in 1..n : Opened(i) >= 0
        /\ Opened(n) = 0
        /\ \A i \in 1..n :
              /\ t[i] = "NEWLINE" => i > 1 /\ t[i - 1] \notin Layout
              /\ t[i] = "INDENT" =>
                    /\ i = 1 \/ t[i - 1] = "NEWLINE"
                    /\ i < n /\ t[i + 1] \notin Layout
              /\ t[i] = "DEDENT" =>
                    /\ i > 1 /\ t[i - 1] # "INDENT"
                    /\ \/ t[i - 1] \in {"NEWLINE", "DEDENT"}
                       \/ \A j \in i..n : t[j] = "DEDENT"
                    /\ i < n => t[i + 1] \notin {"NEWLINE", "INDENT"}

ShortSequences ==
    {ts \o <<Sym("EOF")>> :
        ts \in {s \in UNION {[1..n -> Alphabet] : n \in 0..MaxTokens} : FromTokenizer(s)}}

\* the deepest nesting of parentheses among the inputs
DeepNesting == 90

\* ( .. ( 1 ) .. ) with n pairs of parentheses
Nested(n) ==
    [i \in 1..(2 * n + 2) |->
        IF i <= n THEN Sym("LPAREN")
        ELSE IF i = n + 1 THEN Integer(1)
        ELSE IF i <= 2 * n + 1 THEN Sym("RPAREN")
        ELSE Sym("EOF")]

\* the tokens of some sources, and whether Parser.parse accepts them
Examples == {
    \* 'f(a, 1)'   (parses)
    <<Ident("f"), Sym("LPAREN"), Ident("a"), Sym("COMMA"), Integer(1), Sym("RPAREN"), Sym("EOF")>>,
    \* 'f()'   (parses)
    <<Ident("f"), Sym("LPAREN"), Sym("RPAREN"), Sym("EOF")>>,
    \* 'x.y[0](1)'   (parses)
    <<Ident("x"), Sym("DOT"), Ident("y"), Sym("LBRACKET"), Integer(0), Sym("RBRACKET"),
      Sym("LPAREN"), Integer(1), Sym("RPAREN"), Sym("EOF")>>,
    \* 'x = [1, 2,]'   (parses)
    <<Ident("x"), Sym("ASSIGN"), Sym("LBRACKET"), Integer(1), Sym("COMMA"), Integer(2),
      Sym("COMMA"), Sym("RBRACKET"), Sym("EOF")>>,
    \* 'x = []'   (parses)
    <<Ident("x"), Sym("ASSIGN"), Sym("LBRACKET"), Sym("RBRACKET"), Sym("EOF")>>,
    \* 'x = {1: 2, "k": y}'   (parses)
    <<Ident("x"), Sym("ASSIGN"), Sym("LBRACE"), Integer(1), Sym("COLON"), Integer(2),
      Sym("COMMA"), String("k"), Sym("COLON"), Ident("y"), Sym("RBRACE"), Sym("EOF")>>,
    \* 'x = {}'   (parses)
    <<Ident("x"), Sym("ASSIGN"), Sym("LBRACE"), Sym("RBRACE"), Sym("EOF")>>,
    \* 'x = [true, false, none, "hi"]'   (parses)
    <<Ident("x"), Sym("ASSIGN"), Sym("LBRACKET"), Sym("TRUE"), Sym("COMMA"), Sym("FALSE"),
      Sym("COMMA"), Sym("NONE"), Sym("COMMA"), String("hi"), Sym("RBRACKET"), Sym("EOF")>>,
    \* '(a + b) * c'   (parses)
    <<Sym("LPAREN"), Ident("a"), Sym("PLUS"), Ident("b"), Sym("RPAREN"), Sym("MULTIPLY"),
      Ident("c"), Sym("EOF")>>,
    \* '@a(1, x)\n@b\nfunction f(x, y):\n    return x\n'   (parses)
    <<Sym("AT"), Ident("a"), Sym("LPAREN"), Integer(1), Sym("COMMA"), Ident("x"), Sym("RPAREN"),
      Sym("NEWLINE"), Sym("AT"), Ident("b"), Sym("NEWLINE"), Sym("FUNCTION"), Ident("f"),
      Sym("LPAREN"), Ident("x"), Sym("COMMA"), Ident("y"), Sym("RPAREN"), Sym("COLON"),
      Sym("NEWLINE"), Sym("INDENT"), Sym("RETURN"), Ident("x"), Sym("NEWLINE"),
      Sym("DEDENT"), Sym("EOF")>>,
    \* '@a\nx = 1\n'   (parses)
    <<Sym("AT"), Ident("a"), Sym("NEWLINE"), Ident("x"), Sym("ASSIGN"), Integer(1),
      Sym("NEWLINE"), Sym("EOF")>>,
    \* 'if x:\n    y = 1\nelse:\n    y = 2\n'   (parses)
    <<Sym("IF"), Ident("x"), Sym("COLON"), Sym("NEWLINE"), Sym("INDENT"), Ident("y"),
      Sym("ASSIGN"), Integer(1), Sym("NEWLINE"), Sym("DEDENT"), Sym("ELSE"), Sym("COLON"),
      Sym("NEWLINE"), Sym("INDENT"), Ident("y"), Sym("ASSIGN"), Integer(2), Sym("NEWLINE"),
      Sym("DEDENT"), Sym("EOF")>>,
    \* 'if x:\n    y\nz'   (parses)
    <<Sym("IF"), Ident("x"), Sym("COLON"), Sym("NEWLINE"), Sym("INDENT"), Ident("y"),
      Sym("NEWLINE"), Sym("DEDENT"), Ident("z"), Sym("EOF")>>,
    \* 'if x:\n    if y:\n        z\nw'   (parses)
    <<Sym("IF"), Ident("x"), Sym("COLON"), Sym("NEWLINE"), Sym("INDENT"), Sym("IF"),
      Ident("y"), Sym("COLON"), Sym("NEWLINE"), Sym("INDENT"), Ident("z"), Sym("NEWLINE"),
      Sym("DEDENT"), Sym("DEDENT"), Ident("w"), Sym("EOF")>>,
    \* 'while x < 3:\n    x = x + 1\n'   (parses)
    <<Sym("WHILE"), Ident("x"), Sym("LT"), Integer(3), Sym("COLON"), Sym("NEWLINE"),
      Sym("INDENT"), Ident("x"), Sym("ASSIGN"), Ident("x"), Sym("PLUS"), Integer(1),
      Sym("NEWLINE"), Sym("DEDENT"), Sym("EOF")>>,
    \* 'for i in [1, 2]:\n    f(i)\n'   (parses)
    <<Sym("FOR"), Ident("i"), Sym("IN"), Sym("LBRACKET"), Integer(1), Sym("COMMA"), Integer(2),
      Sym("RBRACKET"), Sym("COLON"), Sym("NEWLINE"), Sym("INDENT"), Ident("f"),
      Sym("LPAREN"), Ident("i"), Sym("RPAREN"), Sym("NEWLINE"), Sym("DEDENT"), Sym("EOF")>>,
    \* 'function f():\n    return\n'   (parses)
    <<Sym("FUNCTION"), Ident("f"), Sym("LPAREN"), Sym("RPAREN"), Sym("COLON"),
      Sym("NEWLINE"), Sym("INDENT"), Sym("RETURN"), Sym("NEWLINE"), Sym("DEDENT"),
      Sym("EOF")>>,
    \* 'x = 1 y = 2'   (parses)
    <<Ident("x"), Sym("ASSIGN"), Integer(1), Ident("y"), Sym("ASSIGN"), Integer(2), Sym("EOF")>>,
    \* 'a ** - b'   (refused: Unexpected token: MINUS)
    <<Ident("a"), Sym("POWER"), Sym("MINUS"), Ident("b"), Sym("EOF")>>,
    \* 'if x:\ny = 1\n'   (refused: Expected indented block)
    <<Sym("IF"), Ident("x"), Sym("COLON"), Sym("NEWLINE"), Ident("y"), Sym("ASSIGN"), Integer(1),
      Sym("NEWLINE"), Sym("EOF")>>,
    \* 'if x:\n'   (refused: Expected indented block)
    <<Sym("IF"), Ident("x"), Sym("COLON"), Sym("NEWLINE"), Sym("EOF")>>,
    \* 'x = 1\n  y = 2\n'   (refused: Unexpected token: INDENT)
    <<Ident("x"), Sym("ASSIGN"), Integer(1), Sym("NEWLINE"), Sym("INDENT"), Ident("y"),
      Sym("ASSIGN"), Integer(2), Sym("NEWLINE"), Sym("DEDENT"), Sym("EOF")>>,
    \* '  x'   (refused: Unexpected token: INDENT)
    <<Sym("INDENT"), Ident("x"), Sym("DEDENT"), Sym("EOF")>>,
    \* 'if x:\n    return'   (refused: Unexpected token: DEDENT)
    <<Sym("IF"), Ident("x"), Sym("COLON"), Sym("NEWLINE"), Sym("INDENT"), Sym("RETURN"),
      Sym("DEDENT"), Sym("EOF")>>,
    \* '@a\n'   (refused: Unexpected token: EOF)
    <<Sym("AT"), Ident("a"), Sym("NEWLINE"), Sym("EOF")>>,
    \* 'if x:\n    @a\n'   (refused: Unexpected token: DEDENT)
    <<Sym("IF"), Ident("x"), Sym("COLON"), Sym("NEWLINE"), Sym("INDENT"), Sym("AT"),
      Ident("a"), Sym("NEWLINE"), Sym("DEDENT"), Sym("EOF")>>,
    \* '@'   (refused: Expected annotation name)
    <<Sym("AT"), Sym("EOF")>>,
    \* 'function f(:\n'   (refused: Expected parameter name)
    <<Sym("FUNCTION"), Ident("f"), Sym("LPAREN"), Sym("COLON"), Sym("NEWLINE"),
      Sym("EOF")>>,
    \* 'function f(x)\n'   (refused: Expected ':' after function signature)
    <<Sym("FUNCTION"), Ident("f"), Sym("LPAREN"), Ident("x"), Sym("RPAREN"), Sym("NEWLINE"),
      Sym("EOF")>>,
    \* 'for i x:\n'   (refused: Expected 'in' keyword)
    <<Sym("FOR"), Ident("i"), Ident("x"), Sym("COLON"), Sym("NEWLINE"), Sym("EOF")>>,
    \* 'x = (1\n'   (refused: Expected ')' after expression)
    <<Ident("x"), Sym("ASSIGN"), Sym("LPAREN"), Integer(1), Sym("NEWLINE"), Sym("EOF")>>,
    \* 'x = [1,\n2]\n'   (refused: Unexpected token: NEWLINE)
    <<Ident("x"), Sym("ASSIGN"), Sym("LBRACKET"), Integer(1), Sym("COMMA"), Sym("NEWLINE"),
      Integer(2), Sym("RBRACKET"), Sym("NEWLINE"), Sym("EOF")>>,
    \* 'f(1'   (refused: Expected RPAREN, got EOF)
    <<Ident("f"), Sym("LPAREN"), Integer(1), Sym("EOF")>>,
    \* 'x[1'   (refused: Expected RBRACKET, got EOF)
    <<Ident("x"), Sym("LBRACKET"), Integer(1), Sym("EOF")>>,
    \* 'x = {1 2}'   (refused: Expected COLON, got INTEGER)
    <<Ident("x"), Sym("ASSIGN"), Sym("LBRACE"), Integer(1), Integer(2), Sym("RBRACE"), Sym("EOF")>>,
    \* 'x. 1'   (refused: Expected member name)
    <<Ident("x"), Sym("DOT"), Integer(1), Sym("EOF")>>,
    \* 'else:\n    x = 1\n'   (refused: Unexpected token: ELSE)
    <<Sym("ELSE"), Sym("COLON"), Sym("NEWLINE"), Sym("INDENT"), Ident("x"), Sym("ASSIGN"),
      Integer(1), Sym("NEWLINE"), Sym("DEDENT"), Sym("EOF")>>,
    \* '1 +'   (refused: Unexpected token: EOF)
    <<Integer(1), Sym("PLUS"), Sym("EOF")>>,
    \* ''   (parses)
    <<Sym("EOF")>>}

ParseInputs == Expressions \cup ShortSequences \cup Examples \cup {Nested(DeepNesting)}

\* Parser(tokens) is built and parse is called
ParseInit ==
    /\ parse_tokens \in ParseInputs
    /\ parse_pos = 0
    /\ frames = <<[fn |-> "parse", at |-> "start", entered |-> 0]>>
    /\ returned = NoNode
    /\ parse_status = "running"
    /\ LexIdle
    /\ AnalysisIdle
    /\ RunIdle
    /\ PipelineIdle

ParseSpec == ParseInit /\ [][ParseNext]_vars

(***************************************************************************)
(* C21  operator precedence and associativity                              *)
(***************************************************************************)
\* the precedence levels by operator, loosest first; a primary binds tightest
Binding(node) ==
    CASE node.kind = "BinaryOp" ->
            (CASE node.operator = "or" -> 1
               [] node.operator = "and" -> 2
               [] node.operator \in {"==", "!="} -> 3
               [] node.operator \in {"<", "<=", ">", ">="} -> 4
               [] node.operator \in {"+", "-"} -> 5
               [] node.operator \in {"*", "/", "%"} -> 6
               [] node.operator = "**" -> 8)
      [] node.kind = "UnaryOp" -> 7
      [] OTHER -> 9

\* the operands and operators of an expression tree from left to right
RECURSIVE InOrder(_)
InOrder(node) ==
    CASE node.kind = "BinaryOp" ->
            InOrder(node.left) \o <<node.operator>> \o InOrder(node.right)
      [] node.kind = "UnaryOp" -> <<node.operator>> \o InOrder(node.operand)
      [] node.kind = "Variable" -> <<node.name>>

\* the operator nodes of an expression tree
RECURSIVE Operations(_)
Operations(node) ==
    CASE node.kind = "BinaryOp" ->
            {node} \cup Operations(node.left) \cup Operations(node.right)
      [] node.kind = "UnaryOp" -> {node} \cup Operations(node.operand)
      [] OTHER -> {}

\* the children of an operator bind as the precedence table has it: a child
\* of a binary operator binds at least as tightly as the operator, the child
\* on the side the operator does not associate to binds tighter than it; the
\* operand of a unary operator is a unary operator, a power or a primary
ChildrenBindTighter(node) ==
    CASE node.kind = "UnaryOp" -> Binding(node.operand) >= Binding(node)
      [] node.kind = "BinaryOp" /\ node.operator = "**" ->
            /\ Binding(node.left) > Binding(node)
            /\ Binding(node.right) >= Binding(node)
      [] node.kind = "BinaryOp" /\ node.operator # "**" ->
            /\ Binding(node.left) >= Binding(node)
            /\ Binding(node.right) > Binding(node)

\* what the tokens before EOF spell
Spelling == [i \in 1..(Len(parse_tokens) - 1) |-> parse_tokens[i].value]

\* a unary operator stands where the right operand of ** is expected
UnaryAfterPower ==
    \E i \in 1..(Len(parse_tokens) - 1) :
        parse_tokens[i].type = "POWER" /\ parse_tokens[i + 1].type \in UnaryTypes

\* C21: an expression of operands, binary operators and chained unary
\* operators parses to the one tree that reads as the tokens from left to
\* right and in which every operator's children bind as the precedence levels
\* say: the tighter of two adjacent binary operators is the child, operators
\* of one level group from the left, ** groups from the right, and not and
\* unary minus take a power as operand and are operands of * / % and of the
\* looser operators.  A unary operator is no operand of **: the parser refuses
\* the expression where one follows **.
C21_TreeFollowsPrecedence ==
    (parse_tokens \in Expressions /\ parse_status # "running") =>
        IF UnaryAfterPower
        THEN /\ parse_status = "ParseError"
             /\ returned.message \in {<<"Unexpected token", u>> : u \in UnaryTypes}
        ELSE /\ parse_status = "done"
             /\ returned.kind = "Program"
             /\ Len(returned.statements) = 1
             /\ InOrder(returned.statements[1]) = Spelling
             /\ \A node \in Operations(returned.statements[1]) : ChildrenBindTighter(node)

\* the trees the claim names
Parsed(expression_tokens, expression) ==
    /\ parse_status = "done"
    /\ parse_tokens = expression_tokens \o <<Sym("EOF")>>
    /\ returned = Program(<<expression>>)

C21_Witness ==
    Parsed(<<Ident("a"), Sym("PLUS"), Ident("b"), Sym("MULTIPLY"), Ident("c")>>,
           BinaryOp(Variable("a"), "+", BinaryOp(Variable("b"), "*", Variable("c"))))

C21_WitnessLeft ==
    Parsed(<<Ident("a"), Sym("MINUS"), Ident("b"), Sym("MINUS"), Ident("c")>>,
           BinaryOp(BinaryOp(Variable("a"), "-", Variable("b")), "-", Variable("c")))

C21_WitnessPower ==
    Parsed(<<Ident("a"), Sym("POWER"), Ident("b"), Sym("POWER"), Ident("c")>>,
           BinaryOp(Variable("a"), "**", BinaryOp(Variable("b"), "**", Variable("c"))))

C21_WitnessUnary ==
    Parsed(<<Sym("MINUS"), Sym("NOT"), Ident("a"), Sym("POWER"), Ident("b")>>,
           UnaryOp("-", UnaryOp("not", BinaryOp(Variable("a"), "**", Variable("b")))))

C21_WitnessFactor ==
    Parsed(<<Sym("NOT"), Ident("a"), Sym("MULTIPLY"), Sym("MINUS"), Ident("b")>>,
           BinaryOp(UnaryOp("not", Variable("a")), "*", UnaryOp("-", Variable("b"))))

(***************************************************************************)
(* C28  how parse ends                                                     *)
(***************************************************************************)
\* the innermost call returns in this step
ReturnsFrom(method) == In(method) /\ frames' = Front(frames) /\ parse_status' # "ParseError"
                       /\ parse_status' # "RecursionError"

\* C28: for every token sequence the tokenizer returns, parse ends by
\* returning a Program or by raising a ParseError, the parser's syntax fault.
C28_ParseReturnsOrRefuses ==
    /\ parse_status \in {"running", "done", "ParseError"}
    /\ parse_status = "done" => returned.kind = "Program"

\* C28, the input that ends otherwise: 1 inside DeepNesting pairs of
\* parentheses leaves parse with the host's RecursionError
C28_RecursionError ==
    /\ parse_tokens = Nested(DeepNesting)
    /\ parse_status = "RecursionError"
    /\ parse_pos = DeepNesting

\* C28, statements: a call of parse_statement that returns, at top level or
\* inside a block, has consumed at least one token.
C28_StatementConsumes ==
    [][ReturnsFrom("parse_statement") => parse_pos' > Top.entered]_vars

\* C28, blocks: a call of parse_block returns only in the step in which it
\* consumes a DEDENT token.
C28_BlockClosedByDedent ==
    [][ReturnsFrom("parse_block") =>
          /\ parse_pos' > parse_pos
          /\ parse_tokens[parse_pos'].type = "DEDENT"]_vars

\* C28, the first violation ends the parse: an error leaves no call behind
\* and the position where it was raised.
C28_ErrorEndsParse ==
    parse_status \in {"ParseError", "RecursionError"} =>
        frames = <<>> /\ returned.pos = parse_pos

\* every call that can take a step takes it
ParseLive == ParseSpec /\ WF_vars(ParseNext)

\* C28, termination: parse ends.
C28_ParseEnds == <>(parse_status # "running")

C28_WitnessBlock ==
    /\ parse_status = "done"
    /\ returned.kind = "Program"
    /\ \E i \in 1..Len(returned.statements) : returned.statements[i].kind = "IfStatement"

C28_WitnessRefused ==
    /\ parse_status = "ParseError"
    /\ returned.message = <<"Expected indented block">>

====
